---- MODULE Spec2Model ----
(***************************************************************************)
(* BlenderGIS basemaps: the tile cache (GeoPackage), the tile service      *)
(* (MapService) and the request thread of the viewport (BaseMap), as       *)
(* state machines translated from src/basemaps/mapviewer.py.               *)
(*                                                                         *)
(* A tile key is the tuple <<x, y, z>> = <<column, row, zoom>>, as in the  *)
(* code.  Time is counted in hours.  None stands for Python's None.        *)
(***************************************************************************)
EXTENDS Integers, Sequences, FiniteSets, TLC

VARIABLES
    \* ---- the tile store exercised alone (StoreSpec) ----
    rows,       \* the gpkg_tiles table: a set of row records
    nextId,     \* the AUTOINCREMENT counter of gpkg_tiles.id
    now,        \* the wall clock, in hours
    ticks,      \* how many times the clock was advanced
    writes,     \* how many tiles were written
    lastPut,    \* history: key -> <<bytes, time, what the key held before>> of its last write
    op,         \* the last store call; for a read, its argument and what it returned
    \* ---- the service and the viewport (Spec) ----
    running,    \* MapService.running
    thread,     \* BaseMap.thread: the number of the last request thread, 0 before the first
    mpc,        \* where the main thread is in BaseMap.get / BaseMap.stop
    nreq,       \* how many request threads were started
    srcGridKey, \* MapService.srcGridKey: the key of the grid of the source
    dstGridKey, \* MapService.dstGridKey: the key of the destination grid, or None
    GDAL,       \* whether the GDAL binding could be imported
    menu,       \* which calls the callers of the service make
    disk,       \* grid -> the tile store of that grid
    nbTiles,    \* MapService.nbTiles
    cptTiles,   \* MapService.cptTiles
    rq,         \* request thread -> its position, its call and what the call gave
    gi,         \* pool -> the getImage call that owns the pool
    jobs,       \* pool -> tilesQueue
    tilesData,  \* pool -> tilesData
    wk,         \* pool -> worker -> its position in downloading()
    joined,     \* history: the request threads whose join has returned
    \* ---- the store file and the functions of a grid, called alone ----
    file,       \* the file at the path of a store: header, tables, rows
    fn          \* the last call: the function, its arguments, what it gave

\* what is fixed when the service is built, and what it never touches
envVars == <<srcGridKey, GDAL, menu, file, fn>>

storeVars == <<rows, nextId, now, ticks, writes, lastPut, op>>

svcVars == <<running, thread, mpc, nreq, srcGridKey, dstGridKey, GDAL, menu, disk, nbTiles, cptTiles, rq, gi,
             jobs, tilesData, wk, joined, file, fn>>

vars == <<rows, nextId, now, ticks, writes, lastPut, op,
          running, thread, mpc, nreq, srcGridKey, dstGridKey, GDAL, menu, disk, nbTiles, cptTiles, rq, gi,
          jobs, tilesData, wk, joined, file, fn>>

None == "None"

\* ------------------------------------------------------------------ bounds
MaxWrites == 2
MaxTicks == 2
MaxBatch == 2
\* request threads started, threads of a getTiles pool (nbThread), threads of
\* the pool of a cross-grid mosaic
MaxReq == 2
NbThread == 2
SubThreads == 2
\* times a store is opened at the same path
MaxOpens == 3
\* calls of getTileNumber and getTileCoords fed one by the other in a row
MaxChain == 3

\* ------------------------------------------------------- program constants
MAX_DAYS == 90
\* isGPKG, create: the application id of a GeoPackage, "GP10" in ASCII
GP10 == 1196437808
HoursPerDay == 24

\* ------------------------------------------------------------ small inputs
Cols == {0, 1}
Rows == {0, 1}
Zooms == {0}
Keys == Cols \X Rows \X Zooms
StoreBytes == {"PNG", "GIF"}
\* the clock advances by a few hours or by the whole maximum age
TickHours == {5, MAX_DAYS * HoursPerDay}

Min(a, b) == IF a <= b THEN a ELSE b
SeqsUpTo(S, n) == UNION {[1..k -> S] : k \in 0..n}
Range(s) == {s[i] : i \in DOMAIN s}
SetsUpTo(S, n) == {T \in SUBSET S : Cardinality(T) <= n}
\* the elements of a finite set, listed in some fixed order
RECURSIVE SeqOf(_)
SeqOf(S) == IF S = {} THEN <<>> ELSE LET e == CHOOSE e \in S : TRUE IN <<e>> \o SeqOf(S \ {e})

\* the batches of keys read at once: every set of at most MaxBatch keys
ReadBatches == {SeqOf(ks) : ks \in SetsUpTo(Keys, MaxBatch)}
WriteEntries == {<<k[1], k[2], k[3], d>> : k \in Keys, d \in StoreBytes}
\* the batches written at once: at most MaxBatch entries, and at most n
WriteBatches(n) == UNION {[1..m -> WriteEntries] : m \in 1..Min(MaxBatch, n)}

\* ---------------------------------------------------------------- the store
\* CREATE TABLE gpkg_tiles: a row of the table
Row(id, x, y, z, data, ts) ==
    [id |-> id, zoom_level |-> z, tile_column |-> x, tile_row |-> y,
     tile_data |-> data, last_modified |-> ts]

RowKey(r) == <<r.tile_column, r.tile_row, r.zoom_level>>

\* INSERT OR REPLACE under UNIQUE (zoom_level, tile_column, tile_row): the rows
\* in conflict are deleted, the new row takes a fresh id and the default
\* last_modified, datetime('now')
InsertKeepingOld(rs, id, t, x, y, z, data) ==
    rs \cup {Row(id, x, y, z, data, t)}

InsertSwapped(rs, id, t, x, y, z, data) ==
    {r \in rs : RowKey(r) # <<y, x, z>>} \cup {Row(id, y, x, z, data, t)}

InsertOrReplace(rs, id, t, x, y, z, data) ==
    {r \in rs : RowKey(r) # <<x, y, z>>} \cup {Row(id, x, y, z, data, t)}

\* timedelta.days: the whole days of a difference of two datetimes (floor)
TimeDeltaDays(t1, t0) == (t1 - t0) \div HoursPerDay

\* fetchone(): the first row of the result, in rowid order
FetchOne(rs) == CHOOSE r \in rs : \A q \in rs : r.id <= q.id

\* GeoPackage.getTile: the bytes, or None
GeoPackage_getTile(rs, t, x, y, z) ==
    LET result == {r \in rs : RowKey(r) = <<x, y, z>>}
    IN  IF result = {} THEN None
        ELSE IF TimeDeltaDays(t, FetchOne(result).last_modified) > MAX_DAYS THEN None
        ELSE FetchOne(result).tile_data

\* GeoPackage.getTiles: zip(*tiles) of an empty list unpacks nothing into
\* xs, ys, zs (ValueError); otherwise the rows matched by the three IN filters.
\* The outcome: what was raised, if anything, and the (x, y, z, data) tuples.
GeoPackage_getTiles(rs, tiles) ==
    IF Len(tiles) = 0 THEN [raised |-> "ValueError", result |-> {}]
    ELSE LET xs == {tiles[i][1] : i \in DOMAIN tiles}
             ys == {tiles[i][2] : i \in DOMAIN tiles}
             zs == {tiles[i][3] : i \in DOMAIN tiles}
         IN  [raised |-> None,
              result |-> {<<r.tile_column, r.tile_row, r.zoom_level, r.tile_data>> :
                             r \in {q \in rs : /\ q.tile_column \in xs
                                               /\ q.tile_row \in ys
                                               /\ q.zoom_level \in zs}}]

\* GeoPackage.putTiles: executemany of the INSERT OR REPLACE, entry by entry
RECURSIVE PutTilesRows(_, _, _, _)
PutTilesRows(rs, id, t, tiles) ==
    IF Len(tiles) = 0 THEN rs
    ELSE PutTilesRows(
             InsertOrReplace(rs, id, t, tiles[1][1], tiles[1][2], tiles[1][3], tiles[1][4]),
             id + 1, t, Tail(tiles))

\* history: what a key held when it was written at time t (expired: a row
\* that a read no longer returned)
Before(h, t, k) ==
    IF h[k] = None THEN "nothing"
    ELSE IF TimeDeltaDays(t, h[k][2]) > MAX_DAYS THEN "expired"
    ELSE "live"

\* the history of writes, entry by entry
RECURSIVE PutTilesHistory(_, _, _)
PutTilesHistory(h, t, tiles) ==
    IF Len(tiles) = 0 THEN h
    ELSE LET k == <<tiles[1][1], tiles[1][2], tiles[1][3]>>
         IN  PutTilesHistory([h EXCEPT ![k] = <<tiles[1][4], t, Before(h, t, k)>>],
                             t, Tail(tiles))


\* ----------------------------------------------------------------- the grids
\* TileMatrix: a grid definition, with coordinates and resolutions in whole
\* map units.  WM is a two-level pyramid of a square of 8 units (NW origin),
\* L93 a one-level grid of another projected CRS (SW origin).
G_WM ==
    [CRS |-> "EPSG:3857", units |-> "meters", originLoc |-> "NW", tileSize |-> 2,
     xmin |-> 0, ymin |-> 0, xmax |-> 8, ymax |-> 8, resolutions |-> <<4, 2>>]

G_L93 ==
    [CRS |-> "EPSG:2154", units |-> "meters", originLoc |-> "SW", tileSize |-> 2,
     xmin |-> 0, ymin |-> 0, xmax |-> 8, ymax |-> 4, resolutions |-> <<2>>]

\* a coarse grid in meters and a grid in degrees
G_WMC ==
    [CRS |-> "EPSG:3857", units |-> "meters", originLoc |-> "NW", tileSize |-> 2,
     xmin |-> 0, ymin |-> 0, xmax |-> 2000000, ymax |-> 2000000,
     resolutions |-> <<500000, 200000>>]

G_WGS ==
    [CRS |-> "EPSG:4326", units |-> "degrees", originLoc |-> "NW", tileSize |-> 2,
     xmin |-> 0, ymin |-> 0, xmax |-> 8, ymax |-> 8, resolutions |-> <<4, 2>>]

\* TileMatrix.__init__: the origin of the tile matrix
originx(tm) == tm.xmin
originy(tm) == IF tm.originLoc = "NW" THEN tm.ymax ELSE tm.ymin

\* TileMatrix.__init__: the number of levels of a grid
nbLevels(tm) ==
    IF "resolutions" \in DOMAIN tm THEN Len(tm.resolutions) ELSE tm.nbLevels

\* TileMatrix.getResList: the list given, or the one computed from the initial
\* resolution and the factor
getResList(tm) ==
    IF "resolutions" \in DOMAIN tm THEN tm.resolutions
    ELSE [i \in 1..tm.nbLevels |-> tm.initRes \div (tm.resFactor ^ (i - 1))]

\* TileMatrix.getRes, for a zoom inside the list (zoom counts from 0)
getRes(tm, zoom) == tm.resolutions[zoom + 1]

\* floor and ceiling of a quotient of integers, b > 0
FloorDiv(a, b) == a \div b
CeilDiv(a, b) == -((-a) \div b)
Abs(a) == IF a < 0 THEN -a ELSE a

\* TileMatrix.getNearestZoom: the pairwise scan of the resolution list
RECURSIVE NearestZoomFrom(_, _, _, _)
NearestZoomFrom(resLst, z1, res, rule) ==
    LET v1 == resLst[z1 + 1]
    IN  IF v1 = res THEN z1
        ELSE IF z1 = Len(resLst) - 1 THEN z1
        ELSE LET z2 == z1 + 1
                 v2 == resLst[z2 + 1]
             IN  IF v2 = res THEN z2
                 ELSE IF v1 > res /\ res > v2
                      THEN IF rule = "lower" THEN z1
                           ELSE IF rule = "higher" THEN z2
                           ELSE IF v1 - res < res - v2 THEN z1 ELSE z2
                      ELSE NearestZoomFrom(resLst, z2, res, rule)

\* a scan without the tests for a level of exactly the target resolution
RECURSIVE NearestZoomBetweenOnly(_, _, _, _)
NearestZoomBetweenOnly(resLst, z1, res, rule) ==
    LET v1 == resLst[z1 + 1]
    IN  IF z1 = Len(resLst) - 1 THEN z1
        ELSE LET z2 == z1 + 1
                 v2 == resLst[z2 + 1]
             IN  IF v1 > res /\ res > v2
                 THEN IF rule = "lower" THEN z1
                      ELSE IF rule = "higher" THEN z2
                      ELSE IF v1 - res < res - v2 THEN z1 ELSE z2
                 ELSE NearestZoomBetweenOnly(resLst, z2, res, rule)

\* the nearest zoom by this scan
getNearestZoomBetweenOnly(tm, res, rule) ==
    NearestZoomBetweenOnly(getResList(tm), 0, res, rule)

getNearestZoom(tm, res, rule) == NearestZoomFrom(getResList(tm), 0, res, rule)

\* TileMatrix.getTileNumber
getTileNumber(tm, x, y, zoom) ==
    LET geoTileSize == tm.tileSize * getRes(tm, zoom)
        dx == x - originx(tm)
        dy == IF tm.originLoc = "NW" THEN originy(tm) - y ELSE y - originy(tm)
    IN  <<FloorDiv(dx, geoTileSize), FloorDiv(dy, geoTileSize)>>

\* TileMatrix.getTileCoords: the top left corner of a tile
getTileCoords(tm, col, row, zoom) ==
    LET geoTileSize == tm.tileSize * getRes(tm, zoom)
    IN  <<originx(tm) + col * geoTileSize,
          IF tm.originLoc = "NW" THEN originy(tm) - row * geoTileSize
          ELSE originy(tm) + row * geoTileSize + geoTileSize>>

\* TileMatrix.getTileBbox: (xmin, ymin, xmax, ymax)
getTileBbox(tm, col, row, zoom) ==
    LET ul == getTileCoords(tm, col, row, zoom)
        geoTileSize == tm.tileSize * getRes(tm, zoom)
    IN  <<ul[1], ul[2] - geoTileSize, ul[1] + geoTileSize, ul[2]>>

\* a test that turns away negative indices only
OutOfBoundsNegativeOnly(tm, col, row, zoom) ==
    row < 0 \/ col < 0

\* a test that takes the right edge of the grid for a place inside it
OutOfBoundsClosedRight(tm, col, row, zoom) ==
    LET ul == getTileCoords(tm, col, row, zoom)
    IN  \/ row < 0
        \/ col < 0
        \/ ~(tm.xmin <= ul[1] /\ ul[1] <= tm.xmax)
        \/ ~(tm.ymin < ul[2] /\ ul[2] <= tm.ymax)

\* MapService.getTile: "don't try to get tiles out of map bounds"
OutOfBounds(tm, col, row, zoom) ==
    LET ul == getTileCoords(tm, col, row, zoom)
    IN  \/ row < 0
        \/ col < 0
        \/ ~(tm.xmin <= ul[1] /\ ul[1] < tm.xmax)
        \/ ~(tm.ymin < ul[2] /\ ul[2] <= tm.ymax)

\* a rectangle whose numbers of tiles are rounded down
TileRectFloored(tm, bbox, zoom) ==
    LET first == getTileNumber(tm, bbox[1], bbox[4], zoom)
        ul == getTileCoords(tm, first[1], first[2], zoom)
        geoTileSize == tm.tileSize * getRes(tm, zoom)
        nbTilesX == FloorDiv(bbox[3] - ul[1], geoTileSize)
        nbTilesY == FloorDiv(ul[2] - bbox[2], geoTileSize)
    IN  [firstCol |-> first[1], firstRow |-> first[2],
         cols |-> [i \in 1..nbTilesX |-> first[1] + (i - 1)],
         rows |-> IF tm.originLoc = "NW"
                  THEN [i \in 1..nbTilesY |-> first[2] + (i - 1)]
                  ELSE [i \in 1..nbTilesY |-> first[2] - (i - 1)],
         ul |-> ul]

\* MapService.getImage: the rectangle of tiles covering a bbox
\* (first column, first row, columns, rows, corrected xmin and ymax)
TileRect(tm, bbox, zoom) ==
    LET first == getTileNumber(tm, bbox[1], bbox[4], zoom)
        ul == getTileCoords(tm, first[1], first[2], zoom)
        geoTileSize == tm.tileSize * getRes(tm, zoom)
        nbTilesX == CeilDiv(bbox[3] - ul[1], geoTileSize)
        nbTilesY == CeilDiv(ul[2] - bbox[2], geoTileSize)
    IN  [firstCol |-> first[1], firstRow |-> first[2],
         cols |-> [i \in 1..nbTilesX |-> first[1] + (i - 1)],
         rows |-> IF tm.originLoc = "NW"
                  THEN [i \in 1..nbTilesY |-> first[2] + (i - 1)]
                  ELSE [i \in 1..nbTilesY |-> first[2] - (i - 1)],
         ul |-> ul]

\* ------------------------------------------------------------- the service
\* MapService: the source grid and the destination grid, when one is defined
GRIDS == [WM |-> G_WM, WMC |-> G_WMC, L93 |-> G_L93, WGS |-> G_WGS]
srcTms == GRIDS[srcGridKey]
dstTms == GRIDS[dstGridKey]

\* a setter that takes the key of the source grid for a destination grid
setDstGridKeepingSrc(grdkey) ==
    IF grdkey # None THEN grdkey ELSE None

\* MapService.setDstGrid: the destination grid key kept for a key asked for
setDstGrid(grdkey) ==
    IF grdkey # None /\ grdkey # srcGridKey THEN grdkey ELSE None
Tm(toDstGrid) == IF toDstGrid THEN dstTms ELSE srcTms
\* the grid part of the key of a cache (srckey_laykey_grdkey)
GridOf(toDstGrid) == IF toDstGrid THEN "dst" ELSE "src"
GridKeys == {"src", "dst"}

\* imghdr.what(None, data): the image format, or None
Sniff(data) == IF data \in {"PNG", "GIF", "PNGr"} THEN "png" ELSE None

\* what urlopen and read can end with: an exception, or the body read
TransportErrors == {"URLError", "HTTPError", "timeout"}
NetOutcomes == TransportErrors \cup {"PNG", "junk", ""}

\* a download that hands over whatever body it read
downloadTileUnsniffed(outcome) ==
    IF outcome \in TransportErrors THEN None
    ELSE outcome

\* MapService.downloadTile on a transport outcome: the bare except gives None,
\* and so does a body that imghdr does not recognise
downloadTile(outcome) ==
    IF outcome \in TransportErrors THEN None
    ELSE IF Sniff(outcome) = None THEN None
    ELSE outcome

\* reprojBbox of a destination tile into the source CRS: the transform fails,
\* or gives a bbox of the source grid
ReprojOutcomes ==
    {[ok |-> FALSE, bbox |-> <<0, 0, 0, 0>>],
     [ok |-> TRUE, bbox |-> <<1, 5, 3, 7>>]}

\* a tile store on disk that does not exist yet, and GeoPackage.__init__ on it
NoFile == [exists |-> FALSE, rows |-> {}, nextId |-> 1]
OpenStore(d) == IF d.exists THEN d ELSE [exists |-> TRUE, rows |-> {}, nextId |-> 1]
PutStore(d, t, tiles) ==
    [d EXCEPT !.rows = PutTilesRows(d.rows, d.nextId, t, tiles),
              !.nextId = d.nextId + Len(tiles)]

\* the arguments of a call of the service made on a request thread
NoArgs ==
    [op |-> "none", toDstGrid |-> FALSE, useCache |-> FALSE, allowEmptyTile |-> FALSE,
     cpt |-> FALSE, nbThread |-> 0, bbox |-> <<0, 0, 0, 0>>, zoom |-> 0, tile |-> <<>>,
     outCRS |-> None]

ImageArgs(toDstGrid, useCache, allowEmptyTile, cpt, nbThread, bbox, zoom) ==
    [op |-> "getImage", toDstGrid |-> toDstGrid, useCache |-> useCache,
     allowEmptyTile |-> allowEmptyTile, cpt |-> cpt, nbThread |-> nbThread,
     bbox |-> bbox, zoom |-> zoom, tile |-> <<>>, outCRS |-> None]

TileArgs(toDstGrid, useCache, tile) ==
    [op |-> "getTile", toDstGrid |-> toDstGrid, useCache |-> useCache,
     allowEmptyTile |-> FALSE, cpt |-> FALSE, nbThread |-> 0,
     bbox |-> <<0, 0, 0, 0>>, zoom |-> tile[3], tile |-> tile, outCRS |-> None]

\* getCache(laykey, useDstGrid)
CacheArgs(useDstGrid) == [NoArgs EXCEPT !.op = "getCache", !.toDstGrid = useDstGrid]

\* the same call with the cache of the source grid on
SubArgsCached(bbox, zoom) == ImageArgs(FALSE, TRUE, FALSE, FALSE, SubThreads, bbox, zoom)

\* getTile, "list, download and merge the tiles required to build this one":
\* getImage(laykey, _bbox, _zoom, toDstGrid=False, useCache=False, nbThread=4,
\* cpt=False, allowEmptyTile=False)
SubArgs(bbox, zoom) == ImageArgs(FALSE, FALSE, FALSE, FALSE, SubThreads, bbox, zoom)

\* "from geoscene.proj import reprojPt, reprojBbox, dd2meters, CRS"
ImportedFromProj == {"reprojPt", "reprojBbox", "dd2meters", "CRS"}

\* proj.py: k = GRS80.perimeter/360 (2 * pi * 6378137 / 360), in whole meters,
\* and the two conversions of a short distance (meters2dd in whole degrees)
MetersPerDegree == 111319
dd2meters(dst) == dst * MetersPerDegree
meters2dd(dst) == dst \div MetersPerDegree

\* getTile, "get closest zoom level": the resolution of the destination level
\* in the units of the source grid, and the nearest level of the source grid;
\* a name that was not imported raises NameError when it is looked up
SubZoom(zoom) ==
    LET res == getRes(dstTms, zoom)
    IN  IF dstTms.units = "degrees" /\ srcTms.units = "meters"
        THEN [raised |-> None, zoom |-> getNearestZoom(srcTms, dd2meters(res), "closer")]
        ELSE IF srcTms.units = "degrees" /\ dstTms.units = "meters"
        THEN IF "meters2dd" \in ImportedFromProj
             THEN [raised |-> None,
                   zoom |-> getNearestZoom(srcTms, meters2dd(res), "closer")]
             ELSE [raised |-> "NameError", zoom |-> 0]
        ELSE [raised |-> None, zoom |-> getNearestZoom(srcTms, res, "closer")]

\* reprojImg: "if not GDAL: raise NotImplementedError"
reprojImgRaises == ~GDAL

\* the requests of the viewport and of other callers of the service
SrcBboxes == {<<0, 5, 8, 7>>}
DstBboxes == {<<0, 0, 4, 3>>}
Requests ==
    {ImageArgs(FALSE, u, e, TRUE, NbThread, b, 1) :
        u \in BOOLEAN, e \in BOOLEAN, b \in SrcBboxes}
    \cup {ImageArgs(TRUE, u, e, TRUE, NbThread, b, 0) :
        u \in BOOLEAN, e \in BOOLEAN, b \in DstBboxes}
    \cup {TileArgs(FALSE, u, t) : u \in BOOLEAN, t \in {<<0, 0, 1>>, <<2, 0, 1>>}}
    \cup {TileArgs(TRUE, u, t) : u \in BOOLEAN, t \in {<<0, 0, 0>>, <<2, 0, 0>>}}
    \cup {CacheArgs(d) : d \in BOOLEAN}

\* calls at the edges: tiles on and beyond the bounds of the grid, negative
\* indices, a mosaic for a scene in another CRS (outCRS)
SrcTiles == {<<0, 0, 1>>, <<2, 0, 1>>, <<0, 2, 1>>, <<-1, 0, 1>>, <<0, -1, 1>>}
DstTiles == {<<0, 0, 0>>, <<2, 0, 0>>, <<-1, 0, 0>>}
EdgeRequests ==
    {TileArgs(FALSE, u, t) : u \in BOOLEAN, t \in SrcTiles}
    \cup {TileArgs(TRUE, u, t) : u \in BOOLEAN, t \in DstTiles}
    \cup {CacheArgs(d) : d \in BOOLEAN}
    \cup {ImageArgs(TRUE, FALSE, TRUE, TRUE, NbThread, b, 0) : b \in DstBboxes}
    \cup {[ImageArgs(FALSE, FALSE, TRUE, TRUE, NbThread, b, 1)
               EXCEPT !.outCRS = "EPSG:4326"] : b \in SrcBboxes}
    \cup {ImageArgs(FALSE, TRUE, TRUE, TRUE, NbThread, b, 1) : b \in SrcBboxes}

\* the calls made in the run
Calls == IF menu = "viewport" THEN Requests ELSE EdgeRequests

\* a mosaic: its size in pixels, the offsets pasted, and its georeferencing
NoImage == [ok |-> FALSE, size |-> <<0, 0>>, pasted |-> {}, pastes |-> 0,
            ul |-> <<0, 0>>, res |-> 0, crs |-> None, px |-> {}]

\* Image.open succeeds on the bytes
Opens(data) == Sniff(data) # None

\* getImage: tiles = [(c, r, zoom) for c in cols for r in rows]
TilesOf(rect, zoom) ==
    [k \in 1..(Len(rect.cols) * Len(rect.rows)) |->
        <<rect.cols[((k - 1) \div Len(rect.rows)) + 1],
          rect.rows[((k - 1) % Len(rect.rows)) + 1], zoom>>]

\* getImage: the image pasted for the data of a tile: the image the bytes
\* open as, a grey tile for no data, a pink one for bytes that do not open
Content(data) ==
    IF data = None THEN "lightgrey" ELSE IF ~Opens(data) THEN "pink" ELSE data

\* mosaic.paste(img, (posx, posy)) on the pixels of a mosaic, held as the set
\* of (posx, posy, image): a later paste at an offset covers the earlier one
Paste(px, posx, posy, img) ==
    {e \in px : <<e[1], e[2]>> # <<posx, posy>>} \cup {<<posx, posy, img>>}

\* getImage: "for tile in tiles", each tile pasted at the offset of its own
\* column and row, in the order of the list
RECURSIVE PasteAll(_, _, _, _)
PasteAll(px, tiles, rect, tileSize) ==
    IF tiles = <<>> THEN px
    ELSE PasteAll(Paste(px, (Head(tiles)[1] - rect.firstCol) * tileSize,
                        Abs(Head(tiles)[2] - rect.firstRow) * tileSize,
                        Content(Head(tiles)[4])),
                  Tail(tiles), rect, tileSize)

\* a loop that pastes the k-th tile of the list at the slot of the k-th tile
\* asked for
AssembleByArrival(a, rect, tiles, run) ==
    LET tm == Tm(a.toDstGrid)
        asked == TilesOf(rect, a.zoom)
        bad == {i \in DOMAIN tiles : tiles[i][4] = None \/ ~Opens(tiles[i][4])}
    IN  IF Len(tiles) > 0 /\ ~run THEN NoImage
        ELSE IF bad # {} /\ ~a.allowEmptyTile THEN NoImage
        ELSE [ok |-> TRUE,
              size |-> <<Len(rect.cols) * tm.tileSize, Len(rect.rows) * tm.tileSize>>,
              pasted |-> {<<(asked[i][1] - rect.firstCol) * tm.tileSize,
                            Abs(asked[i][2] - rect.firstRow) * tm.tileSize>> :
                             i \in DOMAIN tiles},
              pastes |-> Len(tiles),
              ul |-> rect.ul,
              res |-> getRes(tm, a.zoom),
              crs |-> tm.CRS,
              px |-> {<<(asked[i][1] - rect.firstCol) * tm.tileSize,
                        Abs(asked[i][2] - rect.firstRow) * tm.tileSize,
                        Content(tiles[i][4])>> : i \in DOMAIN tiles}]

\* a loop that pastes the readable tiles only and leaves the other slots
AssembleSkipping(a, rect, tiles, run) ==
    LET tm == Tm(a.toDstGrid)
        bad == {i \in DOMAIN tiles : tiles[i][4] = None \/ ~Opens(tiles[i][4])}
    IN  IF Len(tiles) > 0 /\ ~run THEN NoImage
        ELSE IF bad # {} /\ ~a.allowEmptyTile THEN NoImage
        ELSE [ok |-> TRUE,
              size |-> <<Len(rect.cols) * tm.tileSize, Len(rect.rows) * tm.tileSize>>,
              pasted |-> {<<(tiles[i][1] - rect.firstCol) * tm.tileSize,
                            Abs(tiles[i][2] - rect.firstRow) * tm.tileSize>> :
                             i \in DOMAIN tiles \ bad},
              pastes |-> Len(tiles) - Cardinality(bad),
              ul |-> rect.ul,
              res |-> getRes(tm, a.zoom),
              crs |-> tm.CRS,
              px |-> PasteAll({}, SelectSeq(tiles, LAMBDA t : t[4] # None /\ Opens(t[4])),
                              rect, tm.tileSize)]

\* getImage: the loop pasting the tiles, and the GeoImage built
Assemble(a, rect, tiles, run) ==
    LET tm == Tm(a.toDstGrid)
        bad == {i \in DOMAIN tiles : tiles[i][4] = None \/ ~Opens(tiles[i][4])}
    IN  IF Len(tiles) > 0 /\ ~run THEN NoImage
        ELSE IF bad # {} /\ ~a.allowEmptyTile THEN NoImage
        ELSE [ok |-> TRUE,
              size |-> <<Len(rect.cols) * tm.tileSize, Len(rect.rows) * tm.tileSize>>,
              pasted |-> {<<(tiles[i][1] - rect.firstCol) * tm.tileSize,
                            Abs(tiles[i][2] - rect.firstRow) * tm.tileSize>> :
                             i \in DOMAIN tiles},
              pastes |-> Len(tiles),
              ul |-> rect.ul,
              res |-> getRes(tm, a.zoom),
              crs |-> tm.CRS,
              px |-> PasteAll({}, tiles, rect, tm.tileSize)]

\* the threads of a request: the request thread, its pool of workers (pool 0)
\* and, for each worker of pool 0, the pool of the mosaic that worker asks for
MaxWidth == IF NbThread > SubThreads THEN NbThread ELSE SubThreads
PoolIds == (1..MaxReq) \X (0..NbThread)
WorkerOff == [pc |-> "off", tile |-> <<>>, tmp |-> 0, exc |-> None]
NoWorkers == [i \in 1..MaxWidth |-> WorkerOff]
GiOff == [pc |-> "off", args |-> NoArgs, rect |-> TileRect(G_WM, <<0, 0, 0, 0>>, 0),
          result |-> {}, launched |-> FALSE, asmRun |-> TRUE, endRun |-> TRUE, ret |-> NoImage,
          raised |-> None, died |-> 0]
\* a request thread: its position, the call, what the call returned (ret, data)
\* or raised, and what the call of getTile did: the bytes the cache gave (hit),
\* the outcome of the transport (net), the bytes it had before storing them
\* (got), the steps it went through (did)
Unread == "unread"
NoNet == "none"
RqOff == [pc |-> "off", args |-> NoArgs, ret |-> NoImage, data |-> None,
          got |-> None, raised |-> None, hit |-> Unread, net |-> NoNet, did |-> {}]

\* no call is in progress
Idle == [name |-> "idle", arg |-> None, ret |-> None]

StoreVarsInit ==
    /\ rows = {}
    /\ nextId = 1
    /\ now = 0
    /\ ticks = 0
    /\ writes = 0
    /\ lastPut = [k \in Keys |-> None]
    /\ op = Idle

ServiceInit ==
    /\ running = FALSE
    /\ thread = 0
    /\ mpc = "idle"
    /\ nreq = 0
    /\ joined = {}
    /\ nbTiles = 0
    /\ cptTiles = 0
    /\ rq = [r \in 1..MaxReq |-> RqOff]
    /\ gi = [p \in PoolIds |-> GiOff]
    /\ jobs = [p \in PoolIds |-> <<>>]
    /\ tilesData = [p \in PoolIds |-> <<>>]
    /\ wk = [p \in PoolIds |-> NoWorkers]


\* ------------------------------------------------------- the store file
\* the five tables of the schema, in the order create() makes them
FiveTables ==
    <<"gpkg_contents", "gpkg_spatial_ref_sys", "gpkg_tile_matrix_set",
      "gpkg_tile_matrix", "gpkg_tiles">>

\* no file at the path; a file that is not an SQLite database
AbsentFile ==
    [kind |-> "none", app_id |-> 0, tables |-> {}, contents |-> {}, srs |-> {},
     tms |-> {}, tm |-> {}, tiles |-> {}, nextId |-> 1]
NotADatabase == [AbsentFile EXCEPT !.kind = "other"]

\* a call of a function alone: none yet
NoCall ==
    [name |-> "none", grid |-> None, rule |-> None, args |-> <<>>, src |-> <<>>,
     ret |-> <<>>, key |-> <<>>, raised |-> None, n |-> 0]

\* GeoPackage.__init__: "self.auth, self.code = tm.CRS.split(':')"
CodeOf(tm) == IF tm.CRS = "EPSG:3857" THEN 3857
              ELSE IF tm.CRS = "EPSG:2154" THEN 2154 ELSE 4326

\* an isGPKG for which no file is a store
isGPKGNever(f) == [raised |-> None, value |-> FALSE]

\* GeoPackage.isGPKG: the file exists, its application id is that of a
\* GeoPackage, and the five SELECTs of the quick check find their tables; on a
\* file that is not a database the PRAGMA raises
isGPKG(f) ==
    IF f.kind = "none" THEN [raised |-> None, value |-> FALSE]
    ELSE IF f.kind = "other" THEN [raised |-> "DatabaseError", value |-> FALSE]
    ELSE IF f.app_id # GP10 THEN [raised |-> None, value |-> FALSE]
    ELSE [raised |-> None,
          value |-> \A i \in DOMAIN FiveTables : FiveTables[i] \in f.tables]

\* GeoPackage.create from its i-th CREATE TABLE on: a table that exists
\* raises, with the tables made so far left in the file
RECURSIVE CreateTables(_, _)
CreateTables(f, i) ==
    IF i > Len(FiveTables) THEN [raised |-> None, file |-> f]
    ELSE IF FiveTables[i] \in f.tables
    THEN [raised |-> "OperationalError", file |-> f]
    ELSE CreateTables([f EXCEPT !.tables = @ \cup {FiveTables[i]}], i + 1)

\* GeoPackage.create: connect makes the file if there is none, the PRAGMA
\* writes the application id, then the five tables
create(f) == CreateTables([f EXCEPT !.kind = "sqlite", !.app_id = GP10], 1)

\* GeoPackage.insertMetadata, insertCRS, insertTileMatrixSet
insertMetadata(f, tm) ==
    [f EXCEPT !.contents = @ \cup
        {[table_name |-> "gpkg_tiles", min_x |-> tm.xmin, min_y |-> tm.ymin,
          max_x |-> tm.xmax, max_y |-> tm.ymax, srs_id |-> CodeOf(tm)]}]
insertCRS(f, tm) ==
    [f EXCEPT !.srs = @ \cup {[srs_id |-> CodeOf(tm), organization |-> "EPSG"]}]
insertTileMatrixSet(f, tm) ==
    [f EXCEPT
        !.tms = {[table_name |-> "gpkg_tiles", srs_id |-> CodeOf(tm), min_x |-> tm.xmin,
                  min_y |-> tm.ymin, max_x |-> tm.xmax, max_y |-> tm.ymax]},
        !.tm = {[zoom_level |-> level - 1,
                 matrix_width |->
                     CeilDiv(tm.xmax - tm.xmin, tm.tileSize * tm.resolutions[level]),
                 matrix_height |->
                     CeilDiv(tm.ymax - tm.ymin, tm.tileSize * tm.resolutions[level]),
                 tile_width |-> tm.tileSize,
                 pixel_x_size |-> tm.resolutions[level]] :
                   level \in DOMAIN tm.resolutions}]

\* GeoPackage.__init__ on the file at the path: what it raises, and the file
GeoPackage_init(f, tm) ==
    IF isGPKG(f).raised # None THEN [raised |-> isGPKG(f).raised, file |-> f]
    ELSE IF isGPKG(f).value THEN [raised |-> None, file |-> f]
    ELSE IF create(f).raised # None THEN create(f)
    ELSE [raised |-> None,
          file |-> insertTileMatrixSet(
                       insertCRS(insertMetadata(create(f).file, tm), tm), tm)]

\* the files found at the path: none, one that is not a database, and the
\* databases that hold some of the five tables of a store made for a grid,
\* with one tile, under one application id or another
AppIds == {0, 42, GP10}
StoreOf(tm) ==
    [GeoPackage_init(AbsentFile, tm).file EXCEPT
        !.tiles = {Row(1, 0, 0, 0, "PNG", 0)}, !.nextId = 2]
Keeping(f, ts) ==
    [f EXCEPT !.tables = ts,
              !.contents = IF "gpkg_contents" \in ts THEN @ ELSE {},
              !.srs = IF "gpkg_spatial_ref_sys" \in ts THEN @ ELSE {},
              !.tms = IF "gpkg_tile_matrix_set" \in ts THEN @ ELSE {},
              !.tm = IF "gpkg_tile_matrix" \in ts THEN @ ELSE {},
              !.tiles = IF "gpkg_tiles" \in ts THEN @ ELSE {},
              !.nextId = IF "gpkg_tiles" \in ts THEN @ ELSE 1]
FilesFound ==
    {AbsentFile, NotADatabase}
    \cup {[Keeping(StoreOf(G_WM), ts) EXCEPT !.app_id = a] :
            a \in AppIds, ts \in SUBSET Range(FiveTables)}

\* GeoPackage(path, tm) for the grid of key g
Open(g) ==
    /\ fn.n < MaxOpens
    /\ file' = GeoPackage_init(file, GRIDS[g]).file
    /\ fn' = [NoCall EXCEPT !.name = "GeoPackage", !.grid = g, !.n = fn.n + 1,
                            !.raised = GeoPackage_init(file, GRIDS[g]).raised]
    /\ UNCHANGED <<running, thread, mpc, nreq, joined, dstGridKey, srcGridKey, GDAL,
                   menu, disk, nbTiles, cptTiles, rq, gi, jobs, tilesData, wk>>
    /\ UNCHANGED storeVars

\* putTile on the store that was opened
Open_putTile ==
    /\ fn.name = "GeoPackage"
    /\ fn.raised = None
    /\ file.nextId <= MaxWrites
    /\ \E x \in Cols, data \in StoreBytes :
          file' = [file EXCEPT
                     !.tiles = InsertOrReplace(@, file.nextId, now, x, 0, 0, data),
                     !.nextId = @ + 1]
    /\ UNCHANGED fn
    /\ UNCHANGED <<running, thread, mpc, nreq, joined, dstGridKey, srcGridKey, GDAL,
                   menu, disk, nbTiles, cptTiles, rq, gi, jobs, tilesData, wk>>
    /\ UNCHANGED storeVars

OpenInit ==
    /\ StoreVarsInit
    /\ ServiceInit
    /\ srcGridKey = "WM"
    /\ dstGridKey = "L93"
    /\ GDAL = TRUE
    /\ menu = "viewport"
    /\ disk = [g \in GridKeys |-> NoFile]
    /\ file \in FilesFound
    /\ fn = NoCall

OpenNext ==
    \/ \E g \in {"WM", "L93"} : Open(g)
    \/ Open_putTile

OpenSpec == OpenInit /\ [][OpenNext]_vars

\* a store by the test of isGPKG
ValidStore(f) ==
    /\ f.kind = "sqlite"
    /\ f.app_id = GP10
    /\ Range(FiveTables) \subseteq f.tables

\* a step that is the opening of a store
OpenStep == fn'.name = "GeoPackage" /\ fn'.n = fn.n + 1

\* C21: opening a store at a path that holds a valid store raises nothing
\* and leaves the file as it was: header, tables, metadata, spatial reference,
\* tile matrix rows and tiles; so does every further opening.
C21_OpenValidStoreIsNoOp ==
    [][(OpenStep /\ ValidStore(file)) => (file' = file /\ fn'.raised = None)]_vars

\* a store with tiles was opened for the third time
C21_Witness ==
    /\ fn.name = "GeoPackage"
    /\ fn.n = MaxOpens
    /\ fn.raised = None
    /\ ValidStore(file)
    /\ Cardinality(file.tiles) = 2

\* C22: opening a store at a path that holds a file that is not a valid
\* store (another application id, or one of the five tables missing) raises
\* an error and leaves the file as it was.
C22_InvalidFileRefused ==
    [][(OpenStep /\ file.kind # "none" /\ ~ValidStore(file))
          => (fn'.raised # None /\ file' = file)]_vars

\* ------------------------------------------- the functions of a grid, alone
\* grids of four levels: a list of resolutions with the origin at the top
\* left, the same with the origin at the bottom left, and a grid whose
\* resolutions are computed
G_T4 ==
    [CRS |-> "EPSG:3857", units |-> "meters", originLoc |-> "NW", tileSize |-> 2,
     xmin |-> 0, ymin |-> 0, xmax |-> 32, ymax |-> 32, resolutions |-> <<8, 4, 2, 1>>]
G_S4 ==
    [CRS |-> "EPSG:2154", units |-> "meters", originLoc |-> "SW", tileSize |-> 2,
     xmin |-> 0, ymin |-> 0, xmax |-> 32, ymax |-> 32, resolutions |-> <<8, 4, 2, 1>>]
G_C4 ==
    [CRS |-> "EPSG:3857", units |-> "meters", originLoc |-> "NW", tileSize |-> 2,
     xmin |-> 0, ymin |-> 0, xmax |-> 32, ymax |-> 32,
     initRes |-> 32, resFactor |-> 2, nbLevels |-> 4]
LibGrids == [T4 |-> G_T4, S4 |-> G_S4, C4 |-> G_C4]
ListGrids == {"T4", "S4"}

\* the zooms, resolutions, points and tile indices handed to the functions
LibZooms == -2 .. 5
Targets == 0 .. 13
Points == {-3, 0, 5, 16, 35}
Indices == {-1, 0, 1, 3}
QuadZooms == 0 .. 3
Rules == {"closer", "lower", "higher"}
One == <<1, 1>>
\* the zooms of the calls about tiles: the first level, the last, one beyond
TileZooms(tm) == {0, nbLevels(tm) - 1, nbLevels(tm)}
\* str(digit), for the digits of a quad key
DigitStr == <<"0", "1", "2", "3">>

\* TileMatrix.getRes: an entry of the list, indexed as Python indexes a list
\* (a negative index counts from the end, an index outside raises), after a
\* zoom above the length is set to the length; or the computed resolution
TileMatrix_getRes(tm, zoom) ==
    IF "resolutions" \in DOMAIN tm
    THEN LET L == Len(tm.resolutions)
             z == IF zoom > L THEN L ELSE zoom
             i == IF z < 0 THEN L + z ELSE z
         IN  IF i < 0 \/ i >= L THEN [raised |-> "IndexError", value |-> 0]
             ELSE [raised |-> None, value |-> tm.resolutions[i + 1]]
    ELSE [raised |-> None,
          value |-> IF zoom >= 0 THEN tm.initRes \div (tm.resFactor ^ zoom)
                    ELSE tm.initRes * (tm.resFactor ^ (-zoom))]

\* the ratio of two resolutions, as a pair (numerator, denominator)
Ratio(tm, z1, z2) ==
    IF TileMatrix_getRes(tm, z2).raised # None
    THEN [raised |-> TileMatrix_getRes(tm, z2).raised, value |-> <<>>]
    ELSE IF TileMatrix_getRes(tm, z1).raised # None
    THEN [raised |-> TileMatrix_getRes(tm, z1).raised, value |-> <<>>]
    ELSE [raised |-> None,
          value |-> <<TileMatrix_getRes(tm, z2).value, TileMatrix_getRes(tm, z1).value>>]

\* a factor that is the ratio whatever the target level
getFromToResFacUnguarded(tm, z1, z2) ==
    IF z1 = z2 THEN [raised |-> None, value |-> One] ELSE Ratio(tm, z1, z2)

\* TileMatrix.getFromToResFac
getFromToResFac(tm, z1, z2) ==
    IF z1 = z2 THEN [raised |-> None, value |-> One]
    ELSE IF z1 < z2
    THEN IF z2 >= nbLevels(tm) - 1 THEN [raised |-> None, value |-> One]
         ELSE Ratio(tm, z1, z2)
    ELSE IF z2 <= 0 THEN [raised |-> None, value |-> One]
         ELSE Ratio(tm, z1, z2)

\* MapService.getQuadKey with the weights of the column and row bits swapped
RECURSIVE QuadKeyRowFirstFrom(_, _, _)
QuadKeyRowFirstFrom(x, y, z) ==
    IF z <= 0 THEN <<>>
    ELSE LET mask == 2 ^ (z - 1)
             digit == (IF (x \div mask) % 2 # 0 THEN 2 ELSE 0)
                      + (IF (y \div mask) % 2 # 0 THEN 1 ELSE 0)
         IN  <<DigitStr[digit + 1]>> \o QuadKeyRowFirstFrom(x, y, z - 1)
getQuadKeyRowFirst(x, y, z) == QuadKeyRowFirstFrom(x, y, z)

\* MapService.getQuadKey, the loop: from bit z - 1 down to bit 0, one character for
\* the digit made of the bit of x (1) and the bit of y (2)
RECURSIVE QuadKeyFrom(_, _, _)
QuadKeyFrom(x, y, z) ==
    IF z <= 0 THEN <<>>
    ELSE LET mask == 2 ^ (z - 1)
             digit == (IF (x \div mask) % 2 # 0 THEN 1 ELSE 0)
                      + (IF (y \div mask) % 2 # 0 THEN 2 ELSE 0)
         IN  <<DigitStr[digit + 1]>> \o QuadKeyFrom(x, y, z - 1)
getQuadKey(x, y, z) == QuadKeyFrom(x, y, z)

\* what the calls of this part leave alone
LibFrame ==
    /\ UNCHANGED <<running, thread, mpc, nreq, joined, dstGridKey, srcGridKey, GDAL,
                   menu, disk, nbTiles, cptTiles, rq, gi, jobs, tilesData, wk, file>>
    /\ UNCHANGED storeVars

\* the last call was function f and returned
Returned(f) == fn.name = f /\ fn.raised = None

\* tm.getRes(zoom)
Call_getRes(g) ==
    /\ \E zoom \in LibZooms :
          fn' = [NoCall EXCEPT
                   !.name = "getRes", !.grid = g, !.args = <<zoom>>,
                   !.raised = TileMatrix_getRes(LibGrids[g], zoom).raised,
                   !.ret = IF TileMatrix_getRes(LibGrids[g], zoom).raised # None THEN <<>>
                           ELSE <<TileMatrix_getRes(LibGrids[g], zoom).value>>]
    /\ LibFrame

\* tm.getNearestZoom(res, rule), for a resolution of one's own or for the one
\* that tm.getRes(z) has just returned
Call_getNearestZoom(g) ==
    /\ \E rule \in Rules :
       \E res \in Targets \cup
                  (IF Returned("getRes") /\ fn.grid = g THEN {fn.ret[1]} ELSE {}) :
          fn' = [NoCall EXCEPT
                   !.name = "getNearestZoom", !.grid = g, !.rule = rule,
                   !.args = <<res>>,
                   !.src = IF Returned("getRes") /\ fn.grid = g /\ fn.ret = <<res>>
                           THEN fn.args ELSE <<>>,
                   !.ret = <<getNearestZoom(LibGrids[g], res, rule)>>]
    /\ LibFrame

\* tm.getFromToResFac(z1, z2)
Call_getFromToResFac(g) ==
    /\ \E z1 \in LibZooms, z2 \in LibZooms :
          fn' = [NoCall EXCEPT
                   !.name = "getFromToResFac", !.grid = g, !.args = <<z1, z2>>,
                   !.raised = getFromToResFac(LibGrids[g], z1, z2).raised,
                   !.ret = getFromToResFac(LibGrids[g], z1, z2).value]
    /\ LibFrame

\* tm.getTileNumber(x, y, zoom), for a point of one's own or for the corner
\* that tm.getTileCoords has just returned, at the same zoom
Call_getTileNumber(g) ==
    /\ \E chained \in {b \in BOOLEAN :
                         b => Returned("getTileCoords") /\ fn.grid = g /\ fn.n < MaxChain} :
       \E x \in IF chained THEN {fn.ret[1]} ELSE Points,
          y \in IF chained THEN {fn.ret[2]} ELSE Points,
          zoom \in IF chained THEN {fn.args[3]} ELSE TileZooms(LibGrids[g]) :
          fn' = [NoCall EXCEPT
                   !.name = "getTileNumber", !.grid = g, !.args = <<x, y, zoom>>,
                   !.src = IF chained THEN fn.args ELSE <<>>,
                   !.n = IF chained THEN fn.n + 1 ELSE 0,
                   !.raised = TileMatrix_getRes(LibGrids[g], zoom).raised,
                   !.ret = IF TileMatrix_getRes(LibGrids[g], zoom).raised # None THEN <<>>
                           ELSE getTileNumber(LibGrids[g], x, y, zoom)]
    /\ LibFrame

\* tm.getTileCoords(col, row, zoom), for a tile of one's own or for the one
\* that tm.getTileNumber has just returned, at the same zoom
Call_getTileCoords(g) ==
    /\ \E chained \in {b \in BOOLEAN :
                         b => Returned("getTileNumber") /\ fn.grid = g /\ fn.n < MaxChain} :
       \E col \in IF chained THEN {fn.ret[1]} ELSE Indices,
          row \in IF chained THEN {fn.ret[2]} ELSE Indices,
          zoom \in IF chained THEN {fn.args[3]} ELSE TileZooms(LibGrids[g]) :
          fn' = [NoCall EXCEPT
                   !.name = "getTileCoords", !.grid = g, !.args = <<col, row, zoom>>,
                   !.src = IF chained THEN fn.args ELSE <<>>,
                   !.n = IF chained THEN fn.n + 1 ELSE 0,
                   !.raised = TileMatrix_getRes(LibGrids[g], zoom).raised,
                   !.ret = IF TileMatrix_getRes(LibGrids[g], zoom).raised # None THEN <<>>
                           ELSE getTileCoords(LibGrids[g], col, row, zoom)]
    /\ LibFrame

\* srv.getQuadKey(x, y, z)
Call_getQuadKey ==
    /\ \E z \in QuadZooms :
       \E x \in 0 .. 2 ^ z - 1, y \in 0 .. 2 ^ z - 1 :
          fn' = [NoCall EXCEPT
                   !.name = "getQuadKey", !.args = <<x, y, z>>,
                   !.key = getQuadKey(x, y, z)]
    /\ LibFrame

\* ---- the resampler ----
\* Reproj.pt between two CRS, in whole units: halving towards degrees, and
\* towards a conic projection a transform in which the axes lean
reprojPt(crs1, crs2, x, y) ==
    IF crs2 = crs1 THEN <<x, y>>
    ELSE IF crs2 = "EPSG:4326" THEN <<x \div 2, y \div 2>>
    ELSE <<x + y \div 2, y - x \div 2>>

\* the least and the greatest of a set of integers
MinOf(S) == CHOOSE m \in S : \A k \in S : m <= k
MaxOf(S) == CHOOSE m \in S : \A k \in S : m >= k

\* Reproj.bbox: the envelope of the four corners, each transformed
reprojBbox(crs1, crs2, bbox) ==
    LET corners == {reprojPt(crs1, crs2, bbox[1], bbox[4]),
                    reprojPt(crs1, crs2, bbox[3], bbox[4]),
                    reprojPt(crs1, crs2, bbox[3], bbox[2]),
                    reprojPt(crs1, crs2, bbox[1], bbox[2])}
    IN  <<MinOf({pt[1] : pt \in corners}), MinOf({pt[2] : pt \in corners}),
          MaxOf({pt[1] : pt \in corners}), MaxOf({pt[2] : pt \in corners})>>

\* GeoImage: a raster of size (w, h) with its upper left corner and resolution
GeoImage(size, ul, res) == [size |-> size, ul |-> ul, res |-> res]

\* GeoImage.bbox
GeoImage_bbox(g) ==
    <<g.ul[1], g.ul[2] - g.size[2] * g.res, g.ul[1] + g.size[1] * g.res, g.ul[2]>>

\* reprojImg, the template raster the warp fills: an argument that is None is
\* the empty sequence; the resolution is the fraction res[1] / res[2], or its
\* square root where the diagonals are matched.  The four tests on out_res
\* and out_size are run in the order of the source, each on the xmin and ymax
\* the tests before it left
reprojImg(crs1, crs2, geoimg, out_ul, out_size, out_res) ==
    LET ul0 == IF out_ul # <<>> THEN out_ul
               ELSE reprojPt(crs1, crs2, geoimg.ul[1], geoimg.ul[2])
        box == reprojBbox(crs1, crs2, GeoImage_bbox(geoimg))
        w0 == geoimg.size[1]
        h0 == geoimg.size[2]
    IN  IF out_res # <<>> /\ out_size # <<>>
        THEN [ul |-> ul0, size |-> out_size, res |-> <<out_res[1], 1>>, root |-> FALSE]
        ELSE IF out_res # <<>>
        THEN [ul |-> <<box[1], box[4]>>,
              size |-> <<(box[3] - box[1]) \div out_res[1],
                         (box[4] - box[2]) \div out_res[1]>>,
              res |-> <<out_res[1], 1>>, root |-> FALSE]
        ELSE IF out_size # <<>>
        THEN [ul |-> ul0, size |-> out_size, res |-> <<geoimg.res, 1>>, root |-> FALSE]
        ELSE [ul |-> <<box[1], box[4]>>, size |-> <<w0, h0>>,
              res |-> <<(box[3] - box[1]) * (box[3] - box[1])
                          + (box[4] - box[2]) * (box[4] - box[2]),
                        w0 * w0 + h0 * h0>>,
              root |-> TRUE]

\* the rasters, CRS and arguments handed to the resampler
SourceImages ==
    {GeoImage(<<2, 2>>, <<0, 8>>, 2), GeoImage(<<4, 2>>, <<4, 16>>, 2)}
TargetCRS == {"EPSG:4326", "EPSG:2154"}
OutUls == {<<>>, <<1, 9>>}
OutSizes == {<<>>, <<2, 2>>}
OutRess == {<<>>, <<1>>}

\* reprojImg(crs1, crs2, geoimg, out_ul, out_size, out_res), GDAL present
Call_reprojImg ==
    /\ ~reprojImgRaises
    /\ \E geoimg \in SourceImages, crs2 \in TargetCRS,
          out_ul \in OutUls, out_size \in OutSizes, out_res \in OutRess :
          LET r == reprojImg("EPSG:3857", crs2, geoimg, out_ul, out_size, out_res)
          IN  fn' = [NoCall EXCEPT
                       !.name = "reprojImg", !.rule = crs2,
                       !.args = geoimg.ul \o <<geoimg.res>> \o geoimg.size,
                       !.src = out_ul,
                       !.key = (IF out_size # <<>> THEN <<"out_size">> ELSE <<>>)
                               \o (IF out_res # <<>> THEN <<"out_res">> ELSE <<>>),
                       !.ret = r.ul \o r.size]
    /\ LibFrame

\* ---- the rectangle of getImage ----
\* the bboxes asked of getImage: xmin < xmax and ymin < ymax
LibBboxes ==
    {<<x1, y1, x2, y2>> : x1 \in Points, y1 \in Points, x2 \in Points, y2 \in Points}
    \ {b \in Points \X Points \X Points \X Points : b[1] >= b[3] \/ b[2] >= b[4]}

\* getImage up to the mosaic it creates: the first tile, the numbers of
\* columns and rows, and the bbox of the raster made of them
\* (GeoImage(mosaic, (xmin, ymax), res).bbox)
Call_getImageRect(g) ==
    /\ \E bbox \in LibBboxes, zoom \in {0, nbLevels(LibGrids[g]) - 1} :
          LET tm == LibGrids[g]
              rect == TileRect(tm, bbox, zoom)
              mosaic == GeoImage(<<Len(rect.cols) * tm.tileSize,
                                   Len(rect.rows) * tm.tileSize>>,
                                 rect.ul, getRes(tm, zoom))
          IN  fn' = [NoCall EXCEPT
                       !.name = "getImage", !.grid = g,
                       !.args = bbox \o <<zoom>>,
                       !.src = <<rect.firstCol, rect.firstRow,
                                 Len(rect.cols), Len(rect.rows)>>,
                       !.ret = GeoImage_bbox(mosaic)]
    /\ LibFrame

GridInit ==
    /\ StoreVarsInit
    /\ ServiceInit
    /\ srcGridKey = "WM"
    /\ dstGridKey = "L93"
    /\ GDAL = TRUE
    /\ menu = "viewport"
    /\ disk = [g \in GridKeys |-> NoFile]
    /\ file = AbsentFile
    /\ fn = NoCall

GridNext ==
    \/ \E g \in DOMAIN LibGrids : Call_getRes(g)
    \/ \E g \in DOMAIN LibGrids : Call_getNearestZoom(g)
    \/ \E g \in DOMAIN LibGrids : Call_getFromToResFac(g)
    \/ \E g \in ListGrids : Call_getTileNumber(g)
    \/ \E g \in ListGrids : Call_getTileCoords(g)
    \/ Call_getQuadKey
    \/ Call_reprojImg
    \/ \E g \in ListGrids : Call_getImageRect(g)

GridSpec == GridInit /\ [][GridNext]_vars

\* the grid of the last call
FnGrid == LibGrids[fn.grid]

\* C23: on every grid and for every zoom z from 0 to the last level, the
\* nearest zoom, by the rule 'closer', of the resolution of z is z.
C23_NearestOfLevelIsLevel ==
    (/\ fn.name = "getNearestZoom"
     /\ fn.rule = "closer"
     /\ fn.src # <<>>
     /\ fn.src[1] \in 0 .. nbLevels(FnGrid) - 1)
        => fn.ret = fn.src

\* the resolution of each level but the first, of a list and of a computed
\* grid, was handed back and gave the level
C23_Witness ==
    /\ fn.name = "getNearestZoom"
    /\ fn.rule = "closer"
    /\ fn.grid = "C4"
    /\ fn.src = <<2>>
    /\ fn.args = <<8>>
    /\ fn.ret = <<2>>

\* the target of the last call lies strictly between levels z and z + 1
Between(z) ==
    /\ fn.name = "getNearestZoom"
    /\ z + 2 \in DOMAIN getResList(FnGrid)
    /\ getResList(FnGrid)[z + 1] > fn.args[1]
    /\ fn.args[1] > getResList(FnGrid)[z + 2]

\* C24: for a target strictly between two adjacent levels the rule
\* 'lower' gives the coarser level, 'higher' the finer, 'closer' the one whose
\* resolution is nearer, and the coarser when both are as near.
C24_BetweenLevelsTieCoarser ==
    \A z \in 0 .. 3 :
        Between(z) =>
            LET d1 == getResList(FnGrid)[z + 1] - fn.args[1]
                d2 == fn.args[1] - getResList(FnGrid)[z + 2]
            IN  fn.ret = <<CASE fn.rule = "lower" -> z
                             [] fn.rule = "higher" -> z + 1
                             [] OTHER -> IF d1 <= d2 THEN z ELSE z + 1>>

\* C25: on a grid with a list of L resolutions, the resolution of a zoom from
\* 0 to L - 1 is the entry of that index, and the resolution of a zoom of L
\* or more is the last entry, without an error.
C25_ZoomAboveListClamps ==
    (/\ fn.name = "getRes"
     /\ fn.grid \in ListGrids
     /\ fn.args[1] >= 0)
        => /\ fn.raised = None
           /\ fn.ret = <<FnGrid.resolutions[
                            IF fn.args[1] >= Len(FnGrid.resolutions)
                            THEN Len(FnGrid.resolutions) ELSE fn.args[1] + 1]>>

\* the levels between which a factor is asked
InsideLevels(z) == z \in 0 .. nbLevels(FnGrid) - 1

\* C26: the factor from a level to itself is 1, and so is the factor to a
\* level at or below 0 from above it, and to a level at or above the last one
\* from below it.
C26_FactorOneAtEnds ==
    (/\ fn.name = "getFromToResFac"
     /\ \/ fn.args[1] = fn.args[2]
        \/ fn.args[2] <= 0 /\ fn.args[1] > fn.args[2]
        \/ fn.args[2] >= nbLevels(FnGrid) - 1 /\ fn.args[1] < fn.args[2])
        => fn.raised = None /\ fn.ret = One

\* the factor from a level beyond the list down to level 0 was asked, and
\* was 1
C26_Witness ==
    /\ fn.name = "getFromToResFac"
    /\ fn.grid = "T4"
    /\ fn.args = <<5, 0>>
    /\ fn.raised = None
    /\ fn.ret = One

\* C27: between two different levels both inside the grid, the first and
\* the last included as targets, the factor is the resolution of the target
\* over the resolution of the start, and is never 1.
C27_RatioInsideLevels ==
    (/\ fn.name = "getFromToResFac"
     /\ fn.args[1] # fn.args[2]
     /\ InsideLevels(fn.args[1])
     /\ InsideLevels(fn.args[2]))
        => /\ fn.raised = None
           /\ fn.ret[1] * getResList(FnGrid)[fn.args[1] + 1]
                = fn.ret[2] * getResList(FnGrid)[fn.args[2] + 1]
           /\ fn.ret[1] # fn.ret[2]

\* C28: on a grid with its origin at the top left, the corner returned for
\* the tile of a point (x, y) at a zoom is at or below the point in x and in y.
C28_CornerBelowPoint ==
    (/\ fn.name = "getTileCoords"
     /\ fn.src # <<>>
     /\ fn.raised = None
     /\ FnGrid.originLoc = "NW")
        => fn.ret[1] <= fn.src[1] /\ fn.ret[2] <= fn.src[2]

\* C29: on every grid, whether its origin is at the top left or at the
\* bottom left, the tile of the corner returned for tile (col, row) at a zoom
\* is (col, row).
C29_TileOfCornerIsTile ==
    (/\ fn.name = "getTileNumber"
     /\ fn.src # <<>>
     /\ fn.raised = None)
        => fn.ret = <<fn.src[1], fn.src[2]>>

\* bit i of n; the value a character of a quad key stands for
Bit(n, i) == (n \div (2 ^ i)) % 2
DigitOf(c) == CHOOSE d \in 0 .. 3 : DigitStr[d + 1] = c

\* the number whose bits, most significant first, are the sequence bits
RECURSIVE FromBits(_)
FromBits(bits) ==
    IF bits = <<>> THEN 0
    ELSE 2 ^ (Len(bits) - 1) * Head(bits) + FromBits(Tail(bits))

\* C30: the quad key of (col, row) at a zoom has zoom characters, the k-th
\* being the digit 2 * bit(row, zoom-1-k) + bit(col, zoom-1-k); the column and
\* the row can be read back from it, so two tiles of a zoom never share a key;
\* and the key of column 5, row 2 at zoom 3 is "121".
C30_QuadKeyInterleavesBits ==
    fn.name = "getQuadKey" =>
        LET col == fn.args[1]
            row == fn.args[2]
            zoom == fn.args[3]
        IN  /\ Len(fn.key) = zoom
            /\ \A k \in 0 .. zoom - 1 :
                  DigitOf(fn.key[k + 1])
                    = 2 * Bit(row, zoom - 1 - k) + Bit(col, zoom - 1 - k)
            /\ FromBits([k \in 1 .. zoom |-> DigitOf(fn.key[k]) % 2]) = col
            /\ FromBits([k \in 1 .. zoom |-> DigitOf(fn.key[k]) \div 2]) = row
            /\ fn.args = <<5, 2, 3>> => fn.key = <<"1", "2", "1">>

\* the key of column 5, row 2 at zoom 3 was made
C30_Witness ==
    /\ fn.name = "getQuadKey"
    /\ fn.args = <<5, 2, 3>>
    /\ fn.key = <<"1", "2", "1">>

\* C31: the raster the resampler returns has the output origin that was
\* supplied as its upper left corner, whether or not an output size and an
\* output resolution are supplied, and the transformed upper left corner of
\* the source when no origin is supplied.
C31_OriginOfResampled ==
    fn.name = "reprojImg" =>
        <<fn.ret[1], fn.ret[2]>>
            = IF fn.src # <<>> THEN fn.src
              ELSE reprojPt("EPSG:3857", fn.rule, fn.args[1], fn.args[2])

\* the extent of tile (col, row) of the grid of the last call at a zoom
TileExtent(col, row, zoom) ==
    LET g == FnGrid.tileSize * getResList(FnGrid)[zoom + 1]
    IN  IF FnGrid.originLoc = "NW"
        THEN <<FnGrid.xmin + col * g, FnGrid.ymax - (row + 1) * g,
               FnGrid.xmin + (col + 1) * g, FnGrid.ymax - row * g>>
        ELSE <<FnGrid.xmin + col * g, FnGrid.ymin + row * g,
               FnGrid.xmin + (col + 1) * g, FnGrid.ymin + (row + 1) * g>>

\* C32: on every grid, with its origin at the top left or at the bottom
\* left, at every zoom and for every bbox with xmin < xmax and ymin < ymax,
\* the rectangle of getImage starts at the tile that holds the upper left
\* corner of the bbox, has at least one column and one row, and the bbox of
\* the raster made of its tiles contains the bbox asked for.
C32_RectCoversBbox ==
    fn.name = "getImage" =>
        LET first == TileExtent(fn.src[1], fn.src[2], fn.args[5])
        IN  /\ first[1] <= fn.args[1] /\ fn.args[1] <= first[3]
            /\ first[2] <= fn.args[4] /\ fn.args[4] <= first[4]
            /\ fn.src[3] >= 1
            /\ fn.src[4] >= 1
            /\ fn.ret[1] <= fn.args[1]
            /\ fn.ret[2] <= fn.args[2]
            /\ fn.ret[3] >= fn.args[3]
            /\ fn.ret[4] >= fn.args[4]

\* a bbox that reaches over three columns and two rows of the finest level
\* of the grid with its origin at the bottom left got its rectangle
C32_Witness ==
    /\ fn.name = "getImage"
    /\ fn.grid = "S4"
    /\ fn.args = <<0, 0, 5, 5, 3>>
    /\ fn.src[3] >= 3
    /\ fn.src[4] >= 2

\* ------------------------------------------------- the store, exercised alone
StoreInit ==
    /\ StoreVarsInit
    /\ ServiceInit
    /\ file = AbsentFile
    /\ fn = NoCall
    /\ srcGridKey = "WM"
    /\ dstGridKey = "L93"
    /\ GDAL = TRUE
    /\ menu = "viewport"
    /\ disk = [g \in GridKeys |-> NoFile]

\* GeoPackage.putTile
Store_putTile(x, y, z, data) ==
    /\ op.name = "idle"
    /\ writes < MaxWrites
    /\ rows' = InsertOrReplace(rows, nextId, now, x, y, z, data)
    /\ nextId' = nextId + 1
    /\ writes' = writes + 1
    /\ lastPut' = PutTilesHistory(lastPut, now, << <<x, y, z, data>> >>)
    /\ UNCHANGED <<now, ticks, op>>
    /\ UNCHANGED svcVars

\* GeoPackage.putTiles
Store_putTiles(tiles) ==
    /\ op.name = "idle"
    /\ Len(tiles) > 0
    /\ writes + Len(tiles) <= MaxWrites
    /\ rows' = PutTilesRows(rows, nextId, now, tiles)
    /\ nextId' = nextId + Len(tiles)
    /\ writes' = writes + Len(tiles)
    /\ lastPut' = PutTilesHistory(lastPut, now, tiles)
    /\ UNCHANGED <<now, ticks, op>>
    /\ UNCHANGED svcVars

\* a read that sweeps the expired row away
SweepingGetTile(x, y, z) ==
    /\ rows' = {r \in rows : RowKey(r) # <<x, y, z>>
                             \/ GeoPackage_getTile(rows, now, x, y, z) # None}
    /\ op.name = "idle"
    /\ op' = [name |-> "getTile", arg |-> <<x, y, z>>,
              ret |-> GeoPackage_getTile(rows, now, x, y, z)]
    /\ UNCHANGED <<nextId, now, ticks, writes, lastPut>>
    /\ UNCHANGED svcVars

\* GeoPackage.getTile
Store_getTile(x, y, z) ==
    /\ op.name = "idle"
    /\ op' = [name |-> "getTile", arg |-> <<x, y, z>>,
              ret |-> GeoPackage_getTile(rows, now, x, y, z)]
    /\ UNCHANGED <<rows, nextId, now, ticks, writes, lastPut>>
    /\ UNCHANGED svcVars

\* GeoPackage.getTiles
Store_getTiles(tiles) ==
    /\ op.name = "idle"
    /\ op' = [name |-> "getTiles", arg |-> tiles,
              ret |-> GeoPackage_getTiles(rows, tiles)]
    /\ UNCHANGED <<rows, nextId, now, ticks, writes, lastPut>>
    /\ UNCHANGED svcVars

\* time passes
Tick(d) ==
    /\ op.name = "idle"
    /\ ticks < MaxTicks
    /\ now' = now + d
    /\ ticks' = ticks + 1
    /\ UNCHANGED <<rows, nextId, writes, lastPut, op>>
    /\ UNCHANGED svcVars

\* the caller takes the result of its read
Store_return ==
    /\ op.name # "idle"
    /\ op' = Idle
    /\ UNCHANGED <<rows, nextId, now, ticks, writes, lastPut>>
    /\ UNCHANGED svcVars

StoreNext ==
    \/ \E k \in Keys, data \in StoreBytes : Store_putTile(k[1], k[2], k[3], data)
    \/ \E tiles \in WriteBatches(MaxWrites - writes) : Store_putTiles(tiles)
    \/ \E k \in Keys : Store_getTile(k[1], k[2], k[3])
    \/ \E tiles \in ReadBatches : Store_getTiles(tiles)
    \/ \E d \in TickHours : Tick(d)
    \/ Store_return

StoreSpec == StoreInit /\ [][StoreNext]_vars

\* ------------------------------------------------------ claims on the store
MaxAgeHours == MAX_DAYS * HoursPerDay
RowsOf(k) == {r \in rows : RowKey(r) = k}
ReadOps == {"getTile", "getTiles"}

\* C3: put(key, bytes) then get(key), with no put on the key in between and
\* less than the maximum age elapsed, returns exactly the bytes that were put.
C3_PutThenGet ==
    (/\ op.name = "getTile"
     /\ lastPut[op.arg] # None
     /\ now - lastPut[op.arg][2] < MaxAgeHours)
        => op.ret = lastPut[op.arg][1]

\* a read of an overwritten key, some hours after its second write
C3_Witness ==
    /\ op.name = "getTile"
    /\ lastPut[op.arg] # None
    /\ lastPut[op.arg][3] = "live"
    /\ now - lastPut[op.arg][2] > 0
    /\ now - lastPut[op.arg][2] < MaxAgeHours
    /\ op.ret = lastPut[op.arg][1]

\* C4: get returns absent whenever now - lastModified is strictly greater than
\* the maximum age of 90 days, at any granularity of time, and the stored bytes
\* whenever the age is at most the maximum age.
C4_ExpiryAtAnyGranularity ==
    (op.name = "getTile" /\ lastPut[op.arg] # None)
        => IF now - lastPut[op.arg][2] > MaxAgeHours
           THEN op.ret = None
           ELSE op.ret = lastPut[op.arg][1]

\* what N sequential get calls return, as (key, bytes) pairs
SequentialGets(tiles) ==
    {<<k[1], k[2], k[3], GeoPackage_getTile(rows, now, k[1], k[2], k[3])>> :
        k \in {q \in Range(tiles) : GeoPackage_getTile(rows, now, q[1], q[2], q[3]) # None}}

\* C5: getMany over any batch of keys (empty, one, many, not necessarily a
\* full rectangle) returns exactly the (key, bytes) pairs N sequential gets
\* would return, without error for the empty batch.
C5_GetManyAsSequentialGets ==
    op.name = "getTiles" =>
        /\ op.ret.raised = None
        /\ op.ret.result = SequentialGets(op.arg)

\* C6: after any sequence of put and putMany the store holds at most one row per
\* key, and that row holds the bytes and the time of the most recent write to
\* the key, so that a key written just now is readable.
C6_OneRowPerKey ==
    \A k \in Keys :
        IF lastPut[k] = None THEN RowsOf(k) = {}
        ELSE /\ Cardinality(RowsOf(k)) = 1
             /\ \A r \in RowsOf(k) : /\ r.tile_data = lastPut[k][1]
                                      /\ r.last_modified = lastPut[k][2]
             /\ lastPut[k][2] = now
                    => GeoPackage_getTile(rows, now, k[1], k[2], k[3]) = lastPut[k][1]

\* an expired key was written again, and is read back
C6_Witness ==
    /\ op.name = "getTile"
    /\ lastPut[op.arg] # None
    /\ lastPut[op.arg][3] = "expired"
    /\ op.ret = lastPut[op.arg][1]

\* a step that is a read of the store
ReadStep == op.name = "idle" /\ op'.name \in ReadOps

\* C7: get and getMany never change the store; after get returned absent for an
\* expired key, the row of that key is still there, bytes and time unchanged.
C7_ReadsKeepStore ==
    [][ReadStep =>
        /\ rows' = rows
        /\ nextId' = nextId
        /\ (op'.name = "getTile" /\ op'.ret = None /\ lastPut[op'.arg] # None)
              => \E r \in rows' : /\ RowKey(r) = op'.arg
                                  /\ r.tile_data = lastPut[op'.arg][1]
                                  /\ r.last_modified = lastPut[op'.arg][2]]_vars

\* get returned absent for a key that was written: the key has expired
C7_Witness ==
    /\ op.name = "getTile"
    /\ op.ret = None
    /\ lastPut[op.arg] # None
    /\ RowsOf(op.arg) # {}

\* ---------------------------------------------- getImage, getTiles, workers
\* getImage up to the start of the worker threads of getTiles: the rectangle
\* of tiles, the cache read, the queue of missing tiles, the threads
StartRect(a) == TileRect(Tm(a.toDstGrid), a.bbox, a.zoom)
StartTiles(a) == TilesOf(StartRect(a), a.zoom)
StartHits(a, store) ==
    IF a.useCache THEN GeoPackage_getTiles(store.rows, StartTiles(a)).result ELSE {}
StartedJobs(a, hits) ==
    SelectSeq(StartTiles(a), LAMBDA t : t \notin {<<e[1], e[2], e[3]>> : e \in hits})
StartedGi(a, hits) ==
    [pc |-> "join", args |-> a, rect |-> StartRect(a), result |-> hits,
     launched |-> Len(StartedJobs(a, hits)) > 0, asmRun |-> TRUE, endRun |-> TRUE, ret |-> NoImage,
     raised |-> None, died |-> 0]
StartedWorkers(a, hits) ==
    [i \in 1..MaxWidth |->
        IF Len(StartedJobs(a, hits)) > 0 /\ i <= a.nbThread
        THEN [pc |-> "empty", tile |-> <<>>, tmp |-> 0, exc |-> None]
        ELSE WorkerOff]

GI_Start(p, a, wk0) ==
    LET g == GridOf(a.toDstGrid)
        store == OpenStore(disk[g])
        hits == StartHits(a, store)
    IN  /\ gi' = [gi EXCEPT ![p] = StartedGi(a, hits)]
        /\ jobs' = [jobs EXCEPT ![p] = StartedJobs(a, hits)]
        /\ tilesData' = [tilesData EXCEPT ![p] = <<>>]
        /\ wk' = [wk0 EXCEPT ![p] = StartedWorkers(a, hits)]
        /\ IF a.cpt
           THEN /\ nbTiles' = Len(StartTiles(a))
                /\ cptTiles' = IF a.useCache THEN Cardinality(hits) ELSE 0
           ELSE UNCHANGED <<nbTiles, cptTiles>>
        /\ disk' = IF a.useCache THEN [disk EXCEPT ![g] = store] ELSE disk

\* a join that returns while workers are alive
WorkersJoinedNoWait(p) == TRUE

\* t.join() has returned for every worker thread of the pool
WorkersJoined(p) == \A i \in 1..MaxWidth : wk[p][i].pc \in {"off", "done", "dead"}

\* the worker threads of the pool that an exception ended
DeadWorkers(p) == {i \in 1..MaxWidth : wk[p][i].pc = "dead"}

\* getTiles that leaves the counters as the workers left them
ResetCountersSkipped(a) == UNCHANGED <<nbTiles, cptTiles>>

\* getTiles: "Reinit cpt progress"
ResetCounters(a) ==
    IF a.cpt
    THEN nbTiles' = 0 /\ cptTiles' = 0
    ELSE UNCHANGED <<nbTiles, cptTiles>>

\* getTiles after the joins (putTiles, the counters, the cached tiles added)
\* and the loop of getImage pasting the tiles
GI_Join(p) ==
    /\ gi[p].pc = "join"
    /\ WorkersJoined(p)
    /\ LET a == gi[p].args
           g == GridOf(a.toDstGrid)
           valid == SelectSeq(tilesData[p], LAMBDA t : t[4] # None)
           all == tilesData[p] \o SeqOf(gi[p].result)
       IN  /\ IF gi[p].launched /\ a.useCache
              THEN disk' = [disk EXCEPT ![g] = PutStore(disk[g], now, valid)]
              ELSE UNCHANGED disk
           /\ ResetCounters(a)
           /\ tilesData' = [tilesData EXCEPT ![p] = all]
           /\ gi' = [gi EXCEPT ![p].pc = "final", ![p].asmRun = running,
                               ![p].ret = Assemble(a, gi[p].rect, all, running),
                               ![p].died = Cardinality(DeadWorkers(p))]
    /\ wk' = [wk EXCEPT ![p] = NoWorkers]
    /\ UNCHANGED <<running, thread, mpc, nreq, joined, dstGridKey, envVars, rq, jobs>>
    /\ UNCHANGED storeVars

\* a return that hands the mosaic over without looking at the flag
GI_ReturnUnchecked(p) ==
    /\ gi[p].pc = "final"
    /\ gi' = [gi EXCEPT ![p].pc = "ret", ![p].endRun = running,
                        ![p].ret = gi[p].ret]
    /\ UNCHANGED <<running, thread, mpc, nreq, joined, dstGridKey, envVars, disk,
                   nbTiles, cptTiles, rq, jobs, tilesData, wk>>
    /\ UNCHANGED storeVars

\* getImage: "if outCRS is not None and outCRS != tm.CRS: geoimg =
\* reprojImg(tm.CRS, outCRS, geoimg)" on the mosaic that was built
Resampled(a, img) == img.ok /\ a.outCRS # None /\ a.outCRS # Tm(a.toDstGrid).CRS

\* getImage: the resampling to outCRS, then "if self.running: return geoimg
\* else: return None"
GI_Return(p) ==
    /\ gi[p].pc = "final"
    /\ IF Resampled(gi[p].args, gi[p].ret) /\ reprojImgRaises
       THEN gi' = [gi EXCEPT ![p].pc = "ret", ![p].ret = NoImage,
                             ![p].raised = "NotImplementedError"]
       ELSE gi' = [gi EXCEPT ![p].pc = "ret", ![p].endRun = running,
                             ![p].ret = IF ~running THEN NoImage
                                        ELSE IF Resampled(gi[p].args, gi[p].ret)
                                        THEN [gi[p].ret EXCEPT !.crs = gi[p].args.outCRS]
                                        ELSE gi[p].ret]
    /\ UNCHANGED <<running, thread, mpc, nreq, joined, dstGridKey, envVars, disk,
                   nbTiles, cptTiles, rq, jobs, tilesData, wk>>
    /\ UNCHANGED storeVars

\* worker: "while not tilesQueue.empty()"
W_Empty(p, i) ==
    /\ wk[p][i].pc = "empty"
    /\ wk' = [wk EXCEPT ![p][i].pc = IF jobs[p] = <<>> THEN "done" ELSE "flag"]
    /\ UNCHANGED <<running, thread, mpc, nreq, joined, dstGridKey, envVars, disk,
                   nbTiles, cptTiles, rq, gi, jobs, tilesData>>
    /\ UNCHANGED storeVars

\* worker: "if not self.running: break"
W_Flag(p, i) ==
    /\ wk[p][i].pc = "flag"
    /\ wk' = [wk EXCEPT ![p][i].pc = IF running THEN "get" ELSE "done"]
    /\ UNCHANGED <<running, thread, mpc, nreq, joined, dstGridKey, envVars, disk,
                   nbTiles, cptTiles, rq, gi, jobs, tilesData>>
    /\ UNCHANGED storeVars

\* worker: "col, row, zoom = tilesQueue.get()", which blocks on an empty queue
W_Get(p, i) ==
    /\ wk[p][i].pc = "get"
    /\ jobs[p] # <<>>
    /\ wk' = [wk EXCEPT ![p][i].pc = "tile", ![p][i].tile = Head(jobs[p])]
    /\ jobs' = [jobs EXCEPT ![p] = Tail(jobs[p])]
    /\ UNCHANGED <<running, thread, mpc, nreq, joined, dstGridKey, envVars, disk,
                   nbTiles, cptTiles, rq, gi, tilesData>>
    /\ UNCHANGED storeVars

\* worker: "tilesData.append( (col, row, zoom, data) )", then the read of the
\* counter for "self.cptTiles += 1" or, without a counter, "task_done()"
Delivered(w, a) ==
    IF a.cpt THEN [pc |-> "cpt", tile |-> <<>>, tmp |-> cptTiles, exc |-> None]
    ELSE [pc |-> "empty", tile |-> <<>>, tmp |-> 0, exc |-> None]
Appended(td, t, data) == Append(td, <<t[1], t[2], t[3], data>>)

\* getTile on the source grid without the cache, on a transport outcome
GetTileSrc(t, o) ==
    IF OutOfBounds(srcTms, t[1], t[2], t[3]) THEN None ELSE downloadTile(o)

\* worker: getTile(laykey, col, row, zoom, toDstGrid, useCache=False) on the
\* source grid
W_TileSrc(p, i) ==
    /\ wk[p][i].pc = "tile"
    /\ ~gi[p].args.toDstGrid
    /\ \E o \in NetOutcomes :
          tilesData' = [tilesData EXCEPT ![p] =
                          Appended(@, wk[p][i].tile, GetTileSrc(wk[p][i].tile, o))]
    /\ wk' = [wk EXCEPT ![p][i] = Delivered(@, gi[p].args)]
    /\ UNCHANGED <<running, thread, mpc, nreq, joined, dstGridKey, envVars, disk,
                   nbTiles, cptTiles, rq, gi, jobs>>
    /\ UNCHANGED storeVars

\* worker: getTile on the destination grid up to the start of the threads of
\* the mosaic of source tiles it asks for
W_TileDst(p, i) ==
    /\ wk[p][i].pc = "tile"
    /\ gi[p].args.toDstGrid
    /\ LET t == wk[p][i].tile
       IN  IF OutOfBounds(dstTms, t[1], t[2], t[3])
           THEN /\ tilesData' = [tilesData EXCEPT ![p] = Appended(@, t, None)]
                /\ wk' = [wk EXCEPT ![p][i] = Delivered(@, gi[p].args)]
                /\ UNCHANGED <<gi, jobs, nbTiles, cptTiles, disk>>
           ELSE IF SubZoom(t[3]).raised # None
           THEN /\ wk' = [wk EXCEPT ![p][i].pc = "dead",
                                     ![p][i].exc = SubZoom(t[3]).raised]
                /\ UNCHANGED <<gi, jobs, tilesData, nbTiles, cptTiles, disk>>
           ELSE \E rb \in ReprojOutcomes :
                   IF ~rb.ok
                   THEN /\ tilesData' = [tilesData EXCEPT ![p] = Appended(@, t, None)]
                        /\ wk' = [wk EXCEPT ![p][i] = Delivered(@, gi[p].args)]
                        /\ UNCHANGED <<gi, jobs, nbTiles, cptTiles, disk>>
                   ELSE GI_Start(<<p[1], i>>, SubArgs(rb.bbox, SubZoom(t[3]).zoom),
                                 [wk EXCEPT ![p][i].pc = "sub"])
    /\ UNCHANGED <<running, thread, mpc, nreq, joined, dstGridKey, envVars, rq>>
    /\ UNCHANGED storeVars

\* worker: getTile on the destination grid once the mosaic is back: the tile
\* is the mosaic resampled (reprojImg) and encoded as PNG; an exception that
\* getTile raises ends the thread
W_Sub(p, i) ==
    /\ wk[p][i].pc = "sub"
    /\ gi[<<p[1], i>>].pc = "ret"
    /\ LET t == wk[p][i].tile
           data == IF gi[<<p[1], i>>].ret.ok THEN "PNGr" ELSE None
       IN  IF gi[<<p[1], i>>].ret.ok /\ reprojImgRaises
           THEN /\ tilesData' = [tilesData EXCEPT ![<<p[1], i>>] = <<>>]
                /\ wk' = [wk EXCEPT ![p][i].pc = "dead",
                                     ![p][i].exc = "NotImplementedError"]
           ELSE /\ tilesData' = [tilesData EXCEPT ![p] = Appended(@, t, data),
                                                  ![<<p[1], i>>] = <<>>]
                /\ wk' = [wk EXCEPT ![p][i] = Delivered(@, gi[p].args)]
    /\ gi' = [gi EXCEPT ![<<p[1], i>>] = GiOff]
    /\ UNCHANGED <<running, thread, mpc, nreq, joined, dstGridKey, envVars, disk,
                   nbTiles, cptTiles, rq, jobs>>
    /\ UNCHANGED storeVars

\* worker: the write of "self.cptTiles += 1", then "tilesQueue.task_done()"
W_Cpt(p, i) ==
    /\ wk[p][i].pc = "cpt"
    /\ cptTiles' = wk[p][i].tmp + 1
    /\ wk' = [wk EXCEPT ![p][i] = [pc |-> "empty", tile |-> <<>>, tmp |-> 0, exc |-> None]]
    /\ UNCHANGED <<running, thread, mpc, nreq, joined, dstGridKey, envVars, disk,
                   nbTiles, rq, gi, jobs, tilesData>>
    /\ UNCHANGED storeVars

\* ------------------------------------------------------ the request thread
\* a call that goes on with the destination grid whether or not one is defined
NoDstGridIgnored(toDstGrid) == FALSE

\* getTile, getImage, getCache: "if self.dstGridKey is not None ... else:
\* raise ValueError('No destination grid defined')"
NoDstGrid(toDstGrid) == toDstGrid /\ dstGridKey = None

ExitedRec(q, ret, data, got, raised) ==
    [q EXCEPT !.pc = "exited", !.ret = ret, !.data = data, !.got = got,
              !.raised = raised]
Exited(r, ret, data, got, raised) ==
    [rq EXCEPT ![r] = ExitedRec(rq[r], ret, data, got, raised)]

\* getTile with useCache: "cache.putTile(col, row, self.zoom, data)" on an
\* object that has no attribute zoom
GetTileEnd(q, a, data) ==
    IF a.useCache /\ data # None
    THEN ExitedRec(q, NoImage, None, data, "AttributeError")
    ELSE ExitedRec(q, NoImage, data, data, None)
GetTileTail(r, a, data) == rq' = [rq EXCEPT ![r] = GetTileEnd(rq[r], a, data)]

\* a lookup that takes any bytes of the cache for a tile
CacheHitUnsniffed(hit) == hit # None

\* getTile: "if data is not None: format = imghdr.what(None, data); if format
\* is not None: return data"
CacheHit(hit) == hit # None /\ Sniff(hit) # None

\* the thread starts: the call of getImage up to the start of its workers
R_StartImage(r) ==
    /\ rq[r].pc = "start"
    /\ rq[r].args.op = "getImage"
    /\ IF NoDstGrid(rq[r].args.toDstGrid)
       THEN /\ rq' = Exited(r, NoImage, None, None, "ValueError")
            /\ UNCHANGED <<gi, jobs, tilesData, wk, nbTiles, cptTiles, disk>>
       ELSE /\ GI_Start(<<r, 0>>, rq[r].args, wk)
            /\ rq' = [rq EXCEPT ![r].pc = "image"]
    /\ UNCHANGED <<running, thread, mpc, nreq, joined, dstGridKey, envVars>>
    /\ UNCHANGED storeVars

\* the thread starts: the call of getCache, the store opened if it was not
R_StartCache(r) ==
    /\ rq[r].pc = "start"
    /\ rq[r].args.op = "getCache"
    /\ LET g == GridOf(rq[r].args.toDstGrid)
       IN  IF NoDstGrid(rq[r].args.toDstGrid)
           THEN /\ rq' = Exited(r, NoImage, None, None, "ValueError")
                /\ UNCHANGED disk
           ELSE /\ rq' = Exited(r, NoImage, None, None, None)
                /\ disk' = [disk EXCEPT ![g] = OpenStore(disk[g])]
    /\ UNCHANGED <<running, thread, mpc, nreq, joined, dstGridKey, envVars, gi, jobs,
                   tilesData, wk, nbTiles, cptTiles>>
    /\ UNCHANGED storeVars

\* the thread starts: the call of getTile, to its end on the source grid, up
\* to the start of the threads of the mosaic on the destination grid
R_StartTile(r) ==
    /\ rq[r].pc = "start"
    /\ rq[r].args.op = "getTile"
    /\ LET a == rq[r].args
           t == a.tile
           g == GridOf(a.toDstGrid)
           store == OpenStore(disk[g])
           hit == IF a.useCache
                  THEN GeoPackage_getTile(store.rows, now, t[1], t[2], t[3])
                  ELSE Unread
           q0 == [rq[r] EXCEPT !.hit = hit,
                               !.did = IF a.useCache THEN {"cache"} ELSE {}]
           opened == IF a.useCache THEN [disk EXCEPT ![g] = store] ELSE disk
       IN  IF NoDstGrid(a.toDstGrid)
           THEN /\ rq' = Exited(r, NoImage, None, None, "ValueError")
                /\ UNCHANGED <<gi, jobs, tilesData, wk, disk>>
           ELSE IF OutOfBounds(Tm(a.toDstGrid), t[1], t[2], t[3])
           THEN /\ rq' = Exited(r, NoImage, None, None, None)
                /\ UNCHANGED <<gi, jobs, tilesData, wk, disk>>
           ELSE IF a.useCache /\ CacheHit(hit)
           THEN /\ rq' = [rq EXCEPT ![r] = ExitedRec(q0, NoImage, hit, None, None)]
                /\ disk' = opened
                /\ UNCHANGED <<gi, jobs, tilesData, wk>>
           ELSE IF ~a.toDstGrid
           THEN /\ \E o \in NetOutcomes :
                      rq' = [rq EXCEPT ![r] =
                               GetTileEnd([q0 EXCEPT !.net = o, !.did = @ \cup {"net"}],
                                          a, downloadTile(o))]
                /\ disk' = opened
                /\ UNCHANGED <<gi, jobs, tilesData, wk>>
           ELSE IF SubZoom(t[3]).raised # None
           THEN /\ rq' = [rq EXCEPT ![r] =
                            ExitedRec(q0, NoImage, None, None, SubZoom(t[3]).raised)]
                /\ disk' = opened
                /\ UNCHANGED <<gi, jobs, tilesData, wk>>
           ELSE \E rb \in ReprojOutcomes :
                   IF ~rb.ok
                   THEN /\ rq' = [rq EXCEPT ![r] =
                                    ExitedRec([q0 EXCEPT !.did = @ \cup {"reprojBbox"}],
                                              NoImage, None, None, None)]
                        /\ disk' = opened
                        /\ UNCHANGED <<gi, jobs, tilesData, wk>>
                   ELSE /\ rq' = [rq EXCEPT ![r] =
                                    [q0 EXCEPT !.pc = "sub",
                                               !.did = @ \cup {"reprojBbox", "getImage"}]]
                        /\ gi' = [gi EXCEPT ![<<r, 0>>] =
                                    StartedGi(SubArgs(rb.bbox, SubZoom(t[3]).zoom), {})]
                        /\ jobs' = [jobs EXCEPT ![<<r, 0>>] =
                                    StartedJobs(SubArgs(rb.bbox, SubZoom(t[3]).zoom), {})]
                        /\ tilesData' = [tilesData EXCEPT ![<<r, 0>>] = <<>>]
                        /\ wk' = [wk EXCEPT ![<<r, 0>>] =
                                    StartedWorkers(SubArgs(rb.bbox, SubZoom(t[3]).zoom), {})]
                        /\ disk' = opened
    /\ UNCHANGED <<running, thread, mpc, nreq, joined, dstGridKey, envVars, nbTiles,
                   cptTiles>>
    /\ UNCHANGED storeVars

\* the call of getImage is back, with a mosaic, with None or with what the
\* resampling raised: BaseMap.run ends and the thread exits
R_Image(r) ==
    /\ rq[r].pc = "image"
    /\ gi[<<r, 0>>].pc = "ret"
    /\ rq' = Exited(r, gi[<<r, 0>>].ret, None, None, gi[<<r, 0>>].raised)
    /\ gi' = [gi EXCEPT ![<<r, 0>>] = GiOff]
    /\ tilesData' = [tilesData EXCEPT ![<<r, 0>>] = <<>>]
    /\ UNCHANGED <<running, thread, mpc, nreq, joined, dstGridKey, envVars, disk,
                   nbTiles, cptTiles, jobs, wk>>
    /\ UNCHANGED storeVars

\* getTile on the destination grid once the mosaic is back, to its end: "if
\* mosaic is None: return None", reprojImg, the PNG bytes, the cache
R_Sub(r) ==
    /\ rq[r].pc = "sub"
    /\ gi[<<r, 0>>].pc = "ret"
    /\ IF gi[<<r, 0>>].ret.ok /\ reprojImgRaises
       THEN rq' = Exited(r, NoImage, None, None, "NotImplementedError")
       ELSE IF gi[<<r, 0>>].ret.ok
       THEN rq' = [rq EXCEPT ![r] =
                     GetTileEnd([rq[r] EXCEPT !.did = @ \cup {"reprojImg"}],
                                rq[r].args, "PNGr")]
       ELSE rq' = Exited(r, NoImage, None, None, None)
    /\ gi' = [gi EXCEPT ![<<r, 0>>] = GiOff]
    /\ tilesData' = [tilesData EXCEPT ![<<r, 0>>] = <<>>]
    /\ UNCHANGED <<running, thread, mpc, nreq, joined, dstGridKey, envVars, disk,
                   nbTiles, cptTiles, jobs, wk>>
    /\ UNCHANGED storeVars

\* ------------------------------------------------------------ the viewport
\* Thread.join returns once the thread has exited
ThreadJoinNoWait(r) == TRUE
ThreadJoin(r) == rq[r].pc = "exited"

\* "self.srv.running = True", the new thread and its start
StartThread(a) ==
    /\ running' = TRUE
    /\ nreq' = nreq + 1
    /\ thread' = nreq + 1
    /\ rq' = [q \in 1..MaxReq |->
                IF q = nreq + 1 THEN [RqOff EXCEPT !.pc = "start", !.args = a]
                ELSE IF rq[q].pc = "exited" THEN [RqOff EXCEPT !.pc = "exited"]
                ELSE rq[q]]

\* BaseMap.stop up to the join: "self.srv.running = False"
BaseMap_stop ==
    /\ mpc = "idle"
    /\ running
    /\ running' = FALSE
    /\ mpc' = "stop_join"
    /\ UNCHANGED <<thread, nreq, joined, dstGridKey, envVars, disk, nbTiles, cptTiles,
                   rq, gi, jobs, tilesData, wk>>
    /\ UNCHANGED storeVars

\* BaseMap.stop: "self.thread.join()" returns
BaseMap_stop_join ==
    /\ mpc = "stop_join"
    /\ ThreadJoin(thread)
    /\ joined' = joined \cup {thread}
    /\ mpc' = "idle"
    /\ UNCHANGED <<running, thread, nreq, dstGridKey, envVars, disk, nbTiles,
                   cptTiles, rq, gi, jobs, tilesData, wk>>
    /\ UNCHANGED storeVars

\* a get that starts the new thread without "self.stop()"
BaseMap_getNoStop ==
    /\ mpc = "idle"
    /\ nreq < MaxReq
    /\ \E a \in Calls : StartThread(a)
    /\ UNCHANGED mpc
    /\ UNCHANGED <<joined, dstGridKey, envVars, disk, nbTiles, cptTiles, gi, jobs,
                   tilesData, wk>>
    /\ UNCHANGED storeVars

\* BaseMap.get: "self.stop()" up to the join or, with nothing running, to
\* the start of the new thread
BaseMap_get ==
    /\ mpc = "idle"
    /\ nreq < MaxReq
    /\ IF running
       THEN /\ running' = FALSE
            /\ mpc' = "get_join"
            /\ UNCHANGED <<thread, nreq, rq>>
       ELSE /\ \E a \in Calls : StartThread(a)
            /\ UNCHANGED mpc
    /\ UNCHANGED <<joined, dstGridKey, envVars, disk, nbTiles, cptTiles, gi, jobs,
                   tilesData, wk>>
    /\ UNCHANGED storeVars

\* BaseMap.get: the join of "self.stop()" returns, and the new thread starts
BaseMap_get_join ==
    /\ mpc = "get_join"
    /\ ThreadJoin(thread)
    /\ joined' = joined \cup {thread}
    /\ mpc' = "idle"
    /\ \E a \in Calls : StartThread(a)
    /\ UNCHANGED <<dstGridKey, envVars, disk, nbTiles, cptTiles, gi, jobs,
                   tilesData, wk>>
    /\ UNCHANGED storeVars

\* ------------------------------------------------------- the specification
Init ==
    /\ StoreVarsInit
    /\ ServiceInit
    /\ file = AbsentFile
    /\ fn = NoCall
    /\ srcGridKey = "WM"
    /\ \E k \in {None, "WM", "L93"} : dstGridKey = setDstGrid(k)
    /\ GDAL = TRUE
    /\ menu = "viewport"
    /\ disk = [g \in GridKeys |-> NoFile]

Next ==
    \/ BaseMap_get
    \/ BaseMap_get_join
    \/ BaseMap_stop
    \/ BaseMap_stop_join
    \/ \E r \in 1..MaxReq : R_StartImage(r)
    \/ \E r \in 1..MaxReq : R_StartTile(r)
    \/ \E r \in 1..MaxReq : R_StartCache(r)
    \/ \E r \in 1..MaxReq : R_Image(r)
    \/ \E r \in 1..MaxReq : R_Sub(r)
    \/ \E p \in PoolIds : GI_Join(p)
    \/ \E p \in PoolIds : GI_Return(p)
    \/ \E p \in PoolIds, i \in 1..MaxWidth : W_Empty(p, i)
    \/ \E p \in PoolIds, i \in 1..MaxWidth : W_Flag(p, i)
    \/ \E p \in PoolIds, i \in 1..MaxWidth : W_Get(p, i)
    \/ \E p \in PoolIds, i \in 1..MaxWidth : W_TileSrc(p, i)
    \/ \E p \in PoolIds, i \in 1..MaxWidth : W_TileDst(p, i)
    \/ \E p \in PoolIds, i \in 1..MaxWidth : W_Sub(p, i)
    \/ \E p \in PoolIds, i \in 1..MaxWidth : W_Cpt(p, i)

Spec == Init /\ [][Next]_vars

\* the service in other surroundings: grids in different units, GDAL missing,
\* stores left by earlier sessions that hold bytes that are not an image
OldStores ==
    {[src |-> [exists |-> TRUE, rows |-> {Row(1, 0, 0, 1, d, 0)}, nextId |-> 2],
      dst |-> [exists |-> TRUE, rows |-> {Row(1, 0, 0, 0, d, 0)}, nextId |-> 2]] :
        d \in {"junk", "", "PNG"}}

EdgeInit ==
    /\ StoreVarsInit
    /\ ServiceInit
    /\ file = AbsentFile
    /\ fn = NoCall
    /\ \E ks \in {<<"WM", "L93">>, <<"WMC", "WGS">>, <<"WGS", "L93">>} :
          /\ srcGridKey = ks[1]
          /\ dstGridKey = setDstGrid(ks[2])
    /\ GDAL \in BOOLEAN
    /\ menu = "edges"
    /\ disk \in {[g \in GridKeys |-> NoFile]} \cup OldStores

EdgeSpec == EdgeInit /\ [][Next]_vars

\* ------------------------------------------------- claims on the service
\* the tiles collected for a pool that came back missing or unreadable
AbsentTiles(p) ==
    {i \in DOMAIN tilesData[p] : tilesData[p][i][4] = None \/ ~Opens(tilesData[p][i][4])}
\* the pixel offsets of the slots of a mosaic of n columns by m rows
Slots(n, m, ts) == {<<(c - 1) * ts, (r - 1) * ts>> : c \in 1..n, r \in 1..m}
NCols(p) == Len(gi[p].rect.cols)
NRows(p) == Len(gi[p].rect.rows)
TileSizeOf(p) == Tm(gi[p].args.toDstGrid).tileSize

\* C1: a getImage call over N columns by M rows, each tile of which came back
\* with bytes or absent, that returns rather than raises, allows empty tiles
\* and sees the running flag set returns a raster of N*tileSize by M*tileSize
\* pixels with every slot pasted, whatever tiles came back absent; a call
\* that does not allow empty tiles and got an absent tile returns nothing
C1_MosaicFilledOrAbsent ==
    \A p \in PoolIds :
        (gi[p].pc = "ret" /\ gi[p].died = 0 /\ gi[p].raised = None) =>
            /\ (gi[p].args.allowEmptyTile /\ gi[p].asmRun /\ gi[p].endRun) =>
                  /\ gi[p].ret.ok
                  /\ gi[p].ret.size = <<NCols(p) * TileSizeOf(p), NRows(p) * TileSizeOf(p)>>
                  /\ gi[p].ret.pasted = Slots(NCols(p), NRows(p), TileSizeOf(p))
            /\ (~gi[p].args.allowEmptyTile /\ AbsentTiles(p) # {}) => ~gi[p].ret.ok

\* a mosaic of two tiles came back with one real tile and one placeholder
C1_Witness ==
    \E p \in PoolIds :
        /\ gi[p].pc = "ret"
        /\ gi[p].args.allowEmptyTile
        /\ gi[p].ret.ok
        /\ NCols(p) * NRows(p) = 2
        /\ Cardinality(AbsentTiles(p)) = 1

\* C2: a getTile call with useCache that missed the cache and then obtained
\* valid bytes returns those bytes, and the store of the requested grid holds
\* them under the requested key when the call ends
C2_WriteThrough ==
    \A r \in 1..MaxReq :
        (/\ rq[r].pc = "exited"
         /\ rq[r].args.op = "getTile"
         /\ rq[r].args.useCache
         /\ rq[r].got # None) =>
            /\ rq[r].raised = None
            /\ rq[r].data = rq[r].got
            /\ GeoPackage_getTile(disk[GridOf(rq[r].args.toDstGrid)].rows, now,
                                  rq[r].args.tile[1], rq[r].args.tile[2],
                                  rq[r].args.tile[3]) = rq[r].got

\* C8: a getImage call that found the running flag cleared when it assembled
\* its tiles returns nothing, and a raster returned by a call whose workers
\* all ran to their end was pasted from one tile per slot of the rectangle
C8_CancelledReturnsAbsent ==
    \A p \in PoolIds :
        gi[p].pc = "ret" =>
            /\ ~gi[p].asmRun => ~gi[p].ret.ok
            /\ (gi[p].ret.ok /\ gi[p].died = 0) =>
                  gi[p].ret.pastes = NCols(p) * NRows(p)

\* a call returned after its workers stopped before the tiles were all fetched
C8_Witness ==
    \E p \in PoolIds :
        /\ gi[p].pc = "ret"
        /\ ~gi[p].asmRun
        /\ Len(tilesData[p]) < NCols(p) * NRows(p)

\* every thread of request r has exited: the request thread, the workers of
\* its pool and the workers of the pools of its cross-grid mosaics
AllExited(r) ==
    /\ rq[r].pc = "exited"
    /\ \A o \in 0..NbThread : gi[<<r, o>>].pc = "off" /\ WorkersJoined(<<r, o>>)

\* a step of a thread of request r
StepOf(r) ==
    \/ rq'[r] # rq[r]
    \/ \E o \in 0..NbThread : gi'[<<r, o>>] # gi[<<r, o>>] \/ wk'[<<r, o>>] # wk[<<r, o>>]

\* C9: once stop() has returned for a request, every thread of the request
\* has exited, and every later change of a tile store is made by a request
\* that stop() has not returned for
C9_StopWaitsForThreads ==
    /\ [](\A r \in joined : AllExited(r))
    /\ [][disk' # disk => \E r \in (1..MaxReq) \ joined : StepOf(r)]_vars

\* stop() returned for a mosaic request that was cut short while in flight
C9_Witness ==
    \E r \in joined :
        /\ rq[r].args.op = "getImage"
        /\ rq[r].args.allowEmptyTile
        /\ ~rq[r].ret.ok
        /\ rq[r].raised = None

\* a worker of pool p can take a step; a worker inside a cross-grid getTile
\* can when the mosaic it waits for can
LeafCanStep(p, i) ==
    \/ wk[p][i].pc \in {"empty", "flag", "tile", "cpt"}
    \/ wk[p][i].pc = "get" /\ jobs[p] # <<>>
PoolCanStep(p) ==
    \/ gi[p].pc \in {"final", "ret"}
    \/ gi[p].pc = "join" /\ (WorkersJoined(p) \/ \E i \in 1..MaxWidth : LeafCanStep(p, i))
WorkerCanStep(p, i) ==
    \/ LeafCanStep(p, i)
    \/ wk[p][i].pc = "sub" /\ PoolCanStep(<<p[1], i>>)

\* C10: a getTiles batch never reaches a state in which workers remain and
\* none of them can take a step, so that the batch ends and stop() returns
C10_BatchNeverStuck ==
    \A p \in PoolIds :
        gi[p].pc = "join" =>
            WorkersJoined(p) \/ \E i \in 1..MaxWidth : WorkerCanStep(p, i)

\* the workers of pool p that have not ended
LiveWorkers(p) == {i \in 1..MaxWidth : wk[p][i].pc \notin {"off", "done", "dead"}}
\* the tile rows of each store
TileRows(d) == [g \in GridKeys |-> d[g].rows]

\* C11: the tile rows of a store change only in the step of a getTiles batch
\* that follows the join of its workers, when no worker of the request is
\* alive: no worker writes, and nothing is written while a worker runs
C11_WriteAfterJoin ==
    [][TileRows(disk') # TileRows(disk) =>
          \E p \in PoolIds :
              /\ gi[p].pc = "join"
              /\ gi'[p].pc = "final"
              /\ \A q \in PoolIds : q[1] = p[1] => LiveWorkers(q) = {}]_vars

\* a batch of two tiles has written one fetched tile after its workers ended
C11_Witness ==
    \E p \in PoolIds :
        /\ gi[p].pc = "final"
        /\ gi[p].launched
        /\ gi[p].args.useCache
        /\ Len(tilesData[p]) = 2
        /\ Cardinality(disk[GridOf(gi[p].args.toDstGrid)].rows) = 1

\* a counted getTiles batch is running in pool p
Counted(p) == p[2] = 0 /\ gi[p].pc = "join" /\ gi[p].args.cpt

\* C12: while a counted mosaic request runs, the total is the number of
\* tiles requested, the completed count never exceeds it, and once every
\* worker has ended with every tile delivered the completed count is the total
C12_ProgressCounters ==
    \A p \in PoolIds :
        Counted(p) =>
            /\ nbTiles = NCols(p) * NRows(p)
            /\ cptTiles <= nbTiles
            /\ (/\ LiveWorkers(p) = {}
                /\ Len(tilesData[p]) + Cardinality(gi[p].result) = nbTiles) =>
                   cptTiles = nbTiles

NoDstDefined == dstGridKey \in {None, srcGridKey}

\* C19: a call of getTile, getImage or getCache that asks for the destination
\* grid while none is defined (never set, set to None, or set to the key of
\* the source grid) raises ValueError, and the step in which it does so leaves
\* the stores, the pools, the workers and the counters as they were.
C19_NoDestinationGrid ==
    /\ [](\A r \in 1..MaxReq :
            (rq[r].pc \notin {"off", "start"} /\ rq[r].args.toDstGrid /\ NoDstDefined)
                => rq[r].pc = "exited" /\ rq[r].raised = "ValueError")
    /\ [][\A r \in 1..MaxReq :
            (rq[r].pc = "start" /\ rq[r].args.toDstGrid /\ NoDstDefined
               /\ rq'[r].pc # "start")
                => UNCHANGED <<disk, gi, jobs, tilesData, wk, nbTiles, cptTiles>>]_vars

\* getCache asked for the destination grid of a service that has none, after
\* an earlier call ended, and raised the error
C19_Witness ==
    /\ dstGridKey = None
    /\ rq[1].pc = "exited"
    /\ rq[2].pc = "exited" /\ rq[2].args.op = "getCache" /\ rq[2].raised = "ValueError"

\* ------------------------------------------------ claims on a call of getTile
\* request thread r runs a call of getTile that is past its first step
TileCall(r) ==
    /\ rq[r].args.op = "getTile"
    /\ rq[r].pc \notin {"off", "start"}
    /\ rq[r].args.toDstGrid => dstGridKey # None

\* the top left corner of the tile asked for, and the grid it is asked on
CallTm(r) == Tm(rq[r].args.toDstGrid)
CallUL(r) ==
    getTileCoords(CallTm(r), rq[r].args.tile[1], rq[r].args.tile[2], rq[r].args.tile[3])
NegativeIndex(r) == rq[r].args.tile[1] < 0 \/ rq[r].args.tile[2] < 0
InsideX(r) == CallTm(r).xmin <= CallUL(r)[1] /\ CallUL(r)[1] < CallTm(r).xmax
InsideY(r) == CallTm(r).ymin < CallUL(r)[2] /\ CallUL(r)[2] <= CallTm(r).ymax

\* the call ended with None and went to no cache, no server and no mosaic
AbsentUntouched(r) ==
    /\ rq[r].pc = "exited"
    /\ rq[r].data = None
    /\ rq[r].raised = None
    /\ rq[r].hit = Unread
    /\ rq[r].net = NoNet
    /\ rq[r].did = {}

\* the first step of a call of getTile leaves the stores, the
\* pools and the workers as they were
FirstStepTouchesNothing(r) ==
    (rq[r].pc = "start" /\ rq'[r].pc # "start")
        => UNCHANGED <<disk, gi, jobs, tilesData, wk, nbTiles, cptTiles>>

\* C14: getTile returns None, with no read or write of a store and no
\* download, for a tile with a negative column or row and for a tile whose top
\* left corner is outside [xmin, xmax) x (ymin, ymax] of the grid asked for.
C14_OutOfBoundsAbsent ==
    /\ [](\A r \in 1..MaxReq :
            (TileCall(r) /\ (NegativeIndex(r) \/ ~InsideX(r) \/ ~InsideY(r)))
                => AbsentUntouched(r))
    /\ [][\A r \in 1..MaxReq :
            (TileCall(r)' /\ (NegativeIndex(r) \/ ~InsideX(r) \/ ~InsideY(r))')
                => FirstStepTouchesNothing(r)]_vars

\* a call with the cache on, for a negative column, on a service whose store
\* holds a tile, ended with None; another for a tile right of the grid
C14_Witness ==
    \E r \in 1..MaxReq :
        /\ TileCall(r)
        /\ rq[r].pc = "exited"
        /\ rq[r].args.useCache
        /\ rq[r].args.tile[1] < 0
        /\ disk[GridOf(rq[r].args.toDstGrid)].rows # {}

\* the statement of C15 as written: a tile whose top left corner is on the
\* upper edge (y = ymax) or on the right edge (x = xmax) gets None with no
\* store and no network
C15_AsStated ==
    \A r \in 1..MaxReq :
        (TileCall(r) /\ (CallUL(r)[2] = CallTm(r).ymax \/ CallUL(r)[1] = CallTm(r).xmax))
            => AbsentUntouched(r)

\* the call went past the bounds test: to the cache, to the server, to the
\* mosaic of source tiles, or to an exception on the way there
PastBounds(r) ==
    \/ rq[r].pc = "sub"
    \/ rq[r].did # {}
    \/ rq[r].raised # None

\* C15: a tile whose top left corner is on the right edge (x = xmax) gets
\* None with no store and no network; a tile with indices that are not
\* negative whose top left corner is on the upper edge (y = ymax), with x in
\* [xmin, xmax), is inside the bounds and is looked up, downloaded or built.
C15_RightEdgeOutUpperEdgeIn ==
    \A r \in 1..MaxReq :
        TileCall(r) =>
            /\ CallUL(r)[1] = CallTm(r).xmax => AbsentUntouched(r)
            /\ (CallUL(r)[2] = CallTm(r).ymax /\ InsideX(r) /\ ~NegativeIndex(r))
                  => PastBounds(r)

\* a tile of the first row, whose top is the top of the grid, was downloaded
C15_Witness ==
    \E r \in 1..MaxReq :
        /\ TileCall(r)
        /\ CallUL(r)[2] = CallTm(r).ymax
        /\ rq[r].net = "PNG"
        /\ rq[r].data = "PNG"

\* C16: downloadTile raises nothing: on every transport error and on every
\* body that is not recognised as an image, the empty body included, what
\* getTile has from it is None; otherwise it is the body, byte for byte. The
\* only exception of a call that downloaded is that of the store write that
\* follows a good download, and the workers collect None or image bytes.
C16_DownloadNeverRaises ==
    /\ \A r \in 1..MaxReq :
          rq[r].net # NoNet =>
              /\ rq[r].got = IF rq[r].net \in TransportErrors \/ Sniff(rq[r].net) = None
                             THEN None ELSE rq[r].net
              /\ rq[r].raised # None
                    => rq[r].raised = "AttributeError" /\ rq[r].got # None
    /\ \A p \in PoolIds :
          (gi[p].pc = "join" /\ ~gi[p].args.toDstGrid) =>
              \A i \in DOMAIN tilesData[p] :
                  tilesData[p][i][4] = None \/ Sniff(tilesData[p][i][4]) # None

\* the server answered with an empty body and getTile returned None
C16_Witness ==
    \E r \in 1..MaxReq :
        /\ rq[r].pc = "exited"
        /\ rq[r].net = ""
        /\ rq[r].data = None
        /\ rq[r].raised = None

\* the cache gave bytes that are not an image
BadHit(r) == rq[r].hit \notin {Unread, None} /\ Sniff(rq[r].hit) = None

\* C17: getTile with the cache on never returns cached bytes that are not
\* recognised as an image, zero bytes included; it goes on as on a miss: to the
\* download on the source grid, to the synthesis from source tiles on the
\* destination grid.
C17_BadCachedBytesAreAMiss ==
    \A r \in 1..MaxReq :
        (TileCall(r) /\ BadHit(r)) =>
            /\ rq[r].data # rq[r].hit
            /\ ~rq[r].args.toDstGrid => "net" \in rq[r].did
            /\ rq[r].args.toDstGrid =>
                  "reprojBbox" \in rq[r].did \/ rq[r].raised = "NameError"

\* the cache held zero bytes for the tile and the tile was downloaded
C17_Witness ==
    \E r \in 1..MaxReq :
        /\ TileCall(r)
        /\ rq[r].hit = ""
        /\ rq[r].net = "PNG"

\* the resolution of a level of the destination grid in the units of the
\* source grid, and the levels of the source grid nearest to a resolution
ConvertedRes(zoom) ==
    IF dstTms.units = "degrees" /\ srcTms.units = "meters"
    THEN getRes(dstTms, zoom) * MetersPerDegree
    ELSE IF srcTms.units = "degrees" /\ dstTms.units = "meters"
    THEN getRes(dstTms, zoom) \div MetersPerDegree
    ELSE getRes(dstTms, zoom)
SrcLevels == 0..(Len(getResList(srcTms)) - 1)
IsNearest(z, res) ==
    /\ z \in SrcLevels
    /\ \A y \in SrcLevels : Abs(getRes(srcTms, z) - res) <= Abs(getRes(srcTms, y) - res)

\* the mosaic asked for a tile of level zoom of the destination grid
SubMosaicAsClaimed(sub, zoom) ==
    /\ sub.op = "getImage"
    /\ ~sub.toDstGrid
    /\ ~sub.useCache
    /\ ~sub.allowEmptyTile
    /\ IsNearest(sub.zoom, ConvertedRes(zoom))

\* the mosaics asked by getTile are as claimed
SubMosaics ==
    /\ \A r \in 1..MaxReq :
          (TileCall(r) /\ rq[r].pc = "sub")
              => SubMosaicAsClaimed(gi[<<r, 0>>].args, rq[r].args.tile[3])
    /\ \A p \in PoolIds : \A i \in 1..MaxWidth :
          wk[p][i].pc = "sub"
              => SubMosaicAsClaimed(gi[<<p[1], i>>].args, wk[p][i].tile[3])

C20_ReprojectionFailureIsAbsent ==
    /\ \A r \in 1..MaxReq : rq[r].raised # "NotImplementedError"
    /\ \A p \in PoolIds : gi[p].raised = None
    /\ \A p \in PoolIds : \A i \in 1..MaxWidth : wk[p][i].exc # "NotImplementedError"


\* ---------------------------------------------------- claims on the mosaic
\* the offset at which getImage pastes a tile of pool p
OffsetOf(p, t) ==
    <<(t[1] - gi[p].rect.firstCol) * TileSizeOf(p),
      Abs(t[2] - gi[p].rect.firstRow) * TileSizeOf(p)>>

\* C33: the mosaic of getImage does not depend on the order in which the
\* workers deliver: every tile of the list is pasted at the offset
\* ((col - firstCol) * tileSize, |row - firstRow| * tileSize) of its own
\* column and row and no two tiles of the list share an offset, so the raster
\* is the same for every order of the same tiles.
C33_MosaicByOwnOffset ==
    \A p \in PoolIds :
        (gi[p].pc \in {"final", "ret"} /\ gi[p].ret.ok) =>
            /\ gi[p].ret.px =
                  {<<OffsetOf(p, tilesData[p][i])[1], OffsetOf(p, tilesData[p][i])[2],
                     Content(tilesData[p][i][4])>> : i \in DOMAIN tilesData[p]}
            /\ \A i \in DOMAIN tilesData[p], j \in DOMAIN tilesData[p] :
                  OffsetOf(p, tilesData[p][i]) = OffsetOf(p, tilesData[p][j]) => i = j

\* a mosaic was returned whose second column was delivered first, with bytes,
\* and whose first column came after it, without
C33_Witness ==
    \E p \in PoolIds :
        /\ gi[p].pc = "ret"
        /\ gi[p].ret.ok
        /\ Len(tilesData[p]) = 2
        /\ tilesData[p][1][1] > tilesData[p][2][1]
        /\ tilesData[p][1][4] # None
        /\ tilesData[p][2][4] = None

\* C34: in a batch of getTiles that is not cancelled every tile asked for is
\* resolved exactly once: it is once in the list returned, whether the batch
\* read of the cache served it or a worker was handed it, under every
\* interleaving of the workers.
C34_EachTileOnce ==
    \A p \in PoolIds :
        (gi[p].pc \in {"final", "ret"} /\ gi[p].asmRun) =>
            \A t \in Range(TilesOf(gi[p].rect, gi[p].args.zoom)) :
                Cardinality({i \in DOMAIN tilesData[p] :
                               <<tilesData[p][i][1], tilesData[p][i][2],
                                 tilesData[p][i][3]>> = t}) = 1

\* C35: a mosaic asked with useCache takes a tile from the cache only when a
\* read of that one tile would serve it: a stored tile older than the largest
\* age, or whose bytes are not those of an image, is a miss, is handed to the
\* workers and is neither pasted nor counted as completed.
C35_MosaicCacheAsSingleRead ==
    \A p \in PoolIds :
        (gi[p].pc = "join" /\ gi[p].args.useCache) =>
            \A e \in gi[p].result :
                /\ GeoPackage_getTile(disk[GridOf(gi[p].args.toDstGrid)].rows, now,
                                      e[1], e[2], e[3]) = e[4]
                /\ CacheHit(e[4])

\* a step of a thread of a request made on the destination grid
DstStep(r) == StepOf(r) /\ rq'[r].args.toDstGrid

\* C36: building tiles of the destination grid from the source grid, in
\* getTile or in a mosaic on the destination grid, never reads, writes or
\* creates the store of the source grid: no step of a request on the
\* destination grid changes it, and the mosaic of source tiles it builds is
\* asked without the cache.
C36_SourceStoreUntouched ==
    /\ [][(\E r \in 1..MaxReq : DstStep(r)) => disk'["src"] = disk["src"]]_vars
    /\ [](\A p \in PoolIds : (p[2] # 0 /\ gi[p].pc # "off") => ~gi[p].args.useCache)

\* a mosaic on the destination grid, with the cache, was returned with a
\* tile built from source tiles, the store of the destination grid holds it
\* and the store of the source grid was never created
C36_Witness ==
    \E r \in 1..MaxReq :
        /\ rq[r].pc = "exited"
        /\ rq[r].args.op = "getImage"
        /\ rq[r].args.toDstGrid
        /\ rq[r].args.useCache
        /\ rq[r].ret.ok
        /\ \E e \in disk["dst"].rows : TRUE
        /\ disk["src"] = NoFile

\* the distance of the resolution of level z of the last call's grid to the
\* target of the call
DistanceOf(z) == Abs(getResList(FnGrid)[z + 1] - fn.args[1])

\* C37: for every target and the rule 'closer', a target coarser than level
\* 0 or finer than the last level included, getNearestZoom returns a level
\* of the grid whose resolution is as near to the target as that of any
\* level (level 0 for a target coarser than level 0).
C37_CloserMinimisesDistance ==
    (fn.name = "getNearestZoom" /\ fn.rule = "closer") =>
        /\ fn.ret[1] \in 0 .. nbLevels(FnGrid) - 1
        /\ \A z \in 0 .. nbLevels(FnGrid) - 1 : DistanceOf(fn.ret[1]) <= DistanceOf(z)

\* the entries of the list of pool p that carry tile t with bytes that open
ValidEntries(p, t) ==
    {i \in DOMAIN tilesData[p] :
        /\ <<tilesData[p][i][1], tilesData[p][i][2], tilesData[p][i][3]>> = t
        /\ tilesData[p][i][4] # None
        /\ Opens(tilesData[p][i][4])}

\* C38: whatever became of the work on each tile, a worker that ended
\* because getTile raised included, a raster that getImage returns while the
\* running flag is set got exactly one paste for every column and row of its
\* rectangle, and a call that does not allow empty tiles returns a raster
\* only when every tile of the rectangle was delivered with valid data.
C38_ReturnedRasterComplete ==
    \A p \in PoolIds :
        (gi[p].pc = "ret" /\ gi[p].ret.ok /\ gi[p].asmRun /\ gi[p].endRun) =>
            /\ gi[p].ret.pastes = NCols(p) * NRows(p)
            /\ gi[p].ret.pasted = Slots(NCols(p), NRows(p), TileSizeOf(p))
            /\ ~gi[p].args.allowEmptyTile =>
                  \A t \in Range(TilesOf(gi[p].rect, gi[p].args.zoom)) :
                      ValidEntries(p, t) # {}

\* the request thread of request r was started and has not exited
Alive(r) == rq[r].pc \notin {"off", "exited"}
\* stop() has cleared the flag for request r and waits for its thread
Cancelled(r) == thread = r /\ mpc \in {"stop_join", "get_join"}

\* C39: for every sequence of get() and stop() of the viewport on one
\* BaseMap at most one request thread is alive at any time, a request thread
\* starts only when no other is alive, and the running flag is set whenever
\* a request thread that was not cancelled is alive.
C39_OneRequestThread ==
    /\ [](Cardinality({r \in 1..MaxReq : Alive(r)}) <= 1)
    /\ [][\A r \in 1..MaxReq :
            (~Alive(r) /\ Alive(r)') => \A q \in 1..MaxReq : ~Alive(q)]_vars
    /\ [](\A r \in 1..MaxReq : (Alive(r) /\ ~Cancelled(r)) => running)

\* a first request was stopped while in flight and waited for, and the
\* thread of a second get() is now fetching tiles with the flag set
C39_Witness ==
    /\ 1 \in joined
    /\ thread = 2
    /\ Alive(2)
    /\ ~Alive(1)
    /\ running
    /\ mpc = "idle"
    /\ gi[<<2, 0>>].pc = "join"

====
